---- MODULE Spec2Model ----
(***************************************************************************)
(* Off-chain core of the mitra prediction market (backend crate).          *)
(*                                                                         *)
(* The database tables are the state; every request handler is a process   *)
(* that runs in one of the request slots of Procs and takes one step per   *)
(* committed storage statement / transaction, so concurrent handlers       *)
(* interleave exactly where the Rust code awaits the database.  When a     *)
(* handler returns, its slot is free again and  last  holds the response.  *)
(*                                                                         *)
(* Money is rust_decimal::Decimal in the source.  It is modelled as a      *)
(* fixed-point integer: the stored value is  value * DecScale ; one whole  *)
(* USDC is DecScale.  Decimal division rounds its quotient to the nearest  *)
(* representable value, which DecDiv reproduces at the model's precision.  *)
(***************************************************************************)
EXTENDS Integers, Sequences, FiniteSets, TLC

\* ------------------------------------------------------------------ bounds
MaxRequests == 4      \* requests started in one behaviour
DecScale == 10        \* fixed-point denominator standing for Decimal's 10^28

\* ----------------------------------------------------------- input domains
Users == {"u1", "u2", "u3"}
Procs == {"p1", "p2"}
EventIds == {"e1"}
Outcomes == {"yes", "no"}
BadOutcome == "maybe"
BetAmounts == {1}
DepositAmounts == {1}
ShareChoices == {1, 4}
UnitShares == {1}
Callers == {"u1", "u2"}
OneSlot == {"p1"}
Paths == {"svc", "grpc"}
NoUser == "nobody"
GroupAdmin == "u1"
NoEvent == "noevent"

VARIABLES members, events, bets, bal, txs, settlements, payouts, votes, req, last, started,
          subscriptions, client_channels, conn, rx, sent, amm,
          committer, users, treasury

vars == <<members, events, bets, bal, txs, settlements, payouts, votes, req, last, started,
          subscriptions, client_channels, conn, rx, sent, amm,
          committer, users, treasury>>

\* the WebSocket server: its two maps, and per connection the state of the
\* connection, the broadcast receiver and the frames sent to the client
ws == <<subscriptions, client_channels, conn, rx, sent>>

db == <<members, events, bets, bal, txs, settlements, payouts, votes>>

\* the background committer, the users table and the on-chain treasury program
side == <<committer, users, treasury>>

\* --------------------------------------------------------------- Decimal
\* Decimal / Decimal : quotient rounded to the nearest unit (ties to even)
DecDiv(a, b) ==
    LET n == a * DecScale
        q == n \div b
        r == n % b
    IN  IF 2 * r > b \/ (2 * r = b /\ q % 2 = 1) THEN q + 1 ELSE q

\* Decimal * Decimal (exact while the product fits the mantissa)
DecMul(a, b) == (a * b) \div DecScale

\* whole USDC -> Decimal
Dec(n) == n * DecScale

\* --------------------------------------------------------------- requests
IdleReq ==
    [kind |-> "idle", pc |-> "idle", path |-> "svc", wallet |-> NoUser,
     event |-> NoEvent, outcome |-> "yes", amount |-> 0, shares |-> 0,
     evstatus |-> "none", role |-> "none", locked |-> 0, snap |-> 0,
     pool |-> 0, tws |-> 0, sig |-> "none", left |-> {}, tasks |-> <<>>,
     leaf_hash |-> <<>>, proof |-> <<>>, root |-> <<>>]

NoResponse == [kind |-> "none", path |-> "svc", at |-> "idle", result |-> "none"]

Free(p) == req[p].pc = "idle"

\* the handler in slot p returns res to its caller
Respond(p, r, res) ==
    /\ UNCHANGED <<ws, amm, side>>
    /\ req' = [req EXCEPT ![p] = IdleReq]
    /\ last' = [kind |-> r.kind, path |-> r.path, at |-> r.pc, result |-> res]

\* the handler in slot p goes on as r2
Continue(p, r2) ==
    /\ UNCHANGED <<ws, amm, side>>
    /\ req' = [req EXCEPT ![p] = r2]
    /\ last' = last

\* no LmsrAmm has been made
NoBuy == [ok |-> FALSE, outcome |-> 0, amount |-> 0, shares |-> 0, price |-> 0,
          new_prices |-> <<>>]

NoAmm == [n |-> 0, shares |-> <<>>, prices |-> <<>>, buy |-> NoBuy]

\* ------------------------------------------------------------- WebSocket
Clients == {"c1", "c2"}

GroupIds == {"g1"}

\* "event:{id}", "group:{id}", "user:{wallet}"
Channel(kind, id) == [kind |-> kind, id |-> id]

Channels ==
    {Channel("event", e) : e \in EventIds} \cup {Channel("group", g) : g \in GroupIds}
        \cup {Channel("user", GroupAdmin)}

NoConn == [state |-> "none", todo |-> <<>>, joined |-> <<>>]

\* WebSocketServer::new: empty maps; nobody has connected
NoClients ==
    /\ subscriptions = [ch \in Channels |-> <<>>]
    /\ client_channels = [c \in Clients |-> <<>>]
    /\ conn = [c \in Clients |-> NoConn]
    /\ rx = [c \in Clients |-> <<>>]
    /\ sent = [c \in Clients |-> <<>>]

\* ------------------------------------------------- committer, users, treasury
\* Committer between two ticks.  result is how the last tick ended; found,
\* processed and published are the events the last tick read, took through
\* the loop body and made a chain call for.
IdleCommitter ==
    [pc |-> "sleep", active_events |-> <<>>, result |-> "none",
     found |-> {}, processed |-> {}, published |-> {}]

\* users: one row per wallet that has been referred to
UserRow(id, wallet) == [id |-> id, wallet_address |-> wallet]

AllUsers == <<UserRow(1, "u1"), UserRow(2, "u2"), UserRow(3, "u3")>>

\* the treasury program (solana/programs/treasury): the chain's clock, the
\* group's SOL and USDC treasuries, the EmergencyWithdraw and BatchSettlement
\* accounts by id, and the outcome of the last instruction.  An account that
\* init_if_needed has just made, or that was never made, is all zero bytes:
\* id 0, status Pending (the first variant), executed_at None.
RequestIds == {0, 1}

BatchIds == {0, 1}

TreasuryFunds == {2}

ZeroWithdraw ==
    [request_id |-> 0, sol_amount |-> 0, usdc_amount |-> 0, requested_at |-> 0,
     unlock_at |-> 0, executed_at |-> <<>>, status |-> "Pending"]

ZeroBatch ==
    [batch_id |-> 0, settlements |-> <<>>, total_sol_amount |-> 0,
     total_usdc_amount |-> 0, created_at |-> 0, executed_at |-> <<>>,
     status |-> "Pending"]

NoInstruction == [ix |-> "none", id |-> 0, result |-> "none"]

\* Unix time of the first slot looked at
Genesis == 1000

NoTreasury ==
    [clock |-> Genesis,
     sol |-> CHOOSE x \in TreasuryFunds : TRUE,
     usdc |-> CHOOSE x \in TreasuryFunds : TRUE,
     withdraw |-> [id \in RequestIds |-> ZeroWithdraw],
     batch |-> [id \in BatchIds |-> ZeroBatch],
     last |-> NoInstruction]

NoSide ==
    /\ committer = IdleCommitter
    /\ users = AllUsers
    /\ treasury = NoTreasury

\* ------------------------------------------------------------------ Init
NoBalance == [exists |-> FALSE, balance |-> 0, locked |-> 0]

NoEventRow == [exists |-> FALSE, status |-> "none", pubkey |-> FALSE]

\* a group whose creator u1 is its admin; u2 may have been invited
InitMembers ==
    {[u \in Users |-> IF u = "u1" THEN "admin"
                      ELSE IF u = "u2" THEN r ELSE "none"] :
     r \in {"member", "none"}}

Init ==
    /\ members \in InitMembers
    /\ events = [e \in EventIds |-> NoEventRow]
    /\ bets = <<>>
    /\ bal = [u \in Users |-> NoBalance]
    /\ txs = [u \in Users |-> <<>>]
    /\ settlements = <<>>
    /\ payouts = <<>>
    /\ votes = [e \in EventIds |-> <<>>]
    /\ req = [p \in Procs |-> IdleReq]
    /\ last = NoResponse
    /\ started = 0
    /\ NoClients
    /\ amm = NoAmm
    /\ NoSide

\* ---------------------------------------------------------------- ledger
\* BalanceRepository: every operation below is one database transaction
\* that reads the row FOR UPDATE, so it is one atomic step.  txs[u] is the
\* user's part of the transactions table, oldest row first.

TxRow(type, amt, before, after, e) ==
    [type |-> type, amount |-> amt, before |-> before, after |-> after, event |-> e]

available(b) == b.balance - b.locked

\* get_or_create_balance: the row exists afterwards (0, 0 when inserted)
get_or_create_balance(u) == [bal EXCEPT ![u].exists = TRUE]

credit_balance(u, amt, type) ==
    /\ bal' = [bal EXCEPT ![u] = [exists |-> TRUE,
                                  balance |-> bal[u].balance + amt,
                                  locked |-> bal[u].locked]]
    /\ txs' = [txs EXCEPT ![u] = Append(@, TxRow(type, amt, bal[u].balance,
                                                bal[u].balance + amt, NoEvent))]

\* a debit that compares the amount with the whole balance, locked funds
\* included
debit_check_whole_balance(u, amt) ==
    IF ~bal[u].exists THEN "NotFound"
    ELSE IF bal[u].balance < amt THEN "BusinessLogic:Insufficient"
    ELSE "ok"

\* result of the checks debit_balance makes under the row lock
debit_check(u, amt) ==
    IF ~bal[u].exists THEN "NotFound"
    ELSE IF available(bal[u]) < amt THEN "BusinessLogic:Insufficient"
    ELSE "ok"

debit_balance(u, amt, type) ==
    /\ bal' = [bal EXCEPT ![u].balance = bal[u].balance - amt]
    /\ txs' = [txs EXCEPT ![u] = Append(@, TxRow(type, amt, bal[u].balance,
                                                bal[u].balance - amt, NoEvent))]

\* a lock that trusts the caller's snapshot and does not look at the row
lock_check_trusting(u, amt) ==
    IF ~bal[u].exists THEN "NotFound" ELSE "ok"

\* result of the checks lock_for_bet makes under the row lock
lock_check(u, amt) ==
    IF ~bal[u].exists THEN "NotFound"
    ELSE IF available(bal[u]) < amt THEN "BusinessLogic:Insufficient"
    ELSE "ok"

\* a lock that takes the amount off the balance
lock_for_bet_debiting(u, amt, e) ==
    /\ bal' = [bal EXCEPT ![u].balance = bal[u].balance - amt]
    /\ txs' = [txs EXCEPT ![u] = Append(@, TxRow("bet_placed", amt, bal[u].balance,
                                                bal[u].balance - amt, e))]

\* BalanceRepository::lock_for_bet
lock_for_bet(u, amt, e) ==
    /\ bal' = [bal EXCEPT ![u].locked = bal[u].locked + amt]
    /\ txs' = [txs EXCEPT ![u] = Append(@, TxRow("bet_placed", amt, bal[u].balance,
                                                bal[u].balance, e))]

Max0(x) == IF x < 0 THEN 0 ELSE x

\* a loss that is deducted without being journaled
settle_loss_unjournaled(u, amt, e) ==
    /\ bal' = [bal EXCEPT ![u].balance = bal[u].balance - amt,
                          ![u].locked = Max0(bal[u].locked - amt)]
    /\ txs' = txs

\* BalanceRepository::settle_loss
settle_loss(u, amt, e) ==
    /\ bal' = [bal EXCEPT ![u].balance = bal[u].balance - amt,
                          ![u].locked = Max0(bal[u].locked - amt)]
    /\ txs' = [txs EXCEPT ![u] = Append(@, TxRow("bet_lost", amt, bal[u].balance,
                                                bal[u].balance - amt, e))]

\* a win that is credited while the stake stays locked
settle_win_keeping_lock(u, original_bet, winnings, e) ==
    /\ bal' = [bal EXCEPT ![u].balance = bal[u].balance + winnings]
    /\ txs' = [txs EXCEPT ![u] = Append(@, TxRow("bet_won", winnings, bal[u].balance,
                                                bal[u].balance + winnings, e))]

\* BalanceRepository::settle_win
settle_win(u, original_bet, winnings, e) ==
    /\ bal' = [bal EXCEPT ![u].balance = bal[u].balance + winnings,
                          ![u].locked = Max0(bal[u].locked - original_bet)]
    /\ txs' = [txs EXCEPT ![u] = Append(@, TxRow("bet_won", winnings, bal[u].balance,
                                                bal[u].balance + winnings, e))]

\* ------------------------------------------------------------ new requests
\* a new request takes the first free slot
CanStart(p) ==
    /\ Free(p)
    /\ p = "p2" => ~Free("p1")
    /\ started < MaxRequests

NewReq(kind, path, w, e) ==
    [IdleReq EXCEPT !.kind = kind, !.pc = "start", !.path = path, !.wallet = w,
                    !.event = e,
                    !.evstatus = IF e \in EventIds THEN events[e].status ELSE "none",
                    !.role = IF w \in Users THEN members[w] ELSE "none"]

\* ------------------------------------------------------------ deposit_funds
\* BettingService::deposit_funds: the on-chain transfer, then credit_balance
Deposit(p, w, amt, chain_ok) ==
    /\ CanStart(p)
    /\ started' = started + 1
    /\ LET r == [NewReq("deposit", "svc", w, NoEvent) EXCEPT !.amount = Dec(amt)]
       IN  IF chain_ok
           THEN /\ credit_balance(w, Dec(amt), "deposit")
                /\ Respond(p, r, "ok")
           ELSE /\ UNCHANGED <<bal, txs>>
                /\ Respond(p, r, "External")
    /\ UNCHANGED <<members, events, bets, settlements, payouts, votes>>

\* ---------------------------------------------------------------- place_bet
\* the checks without the comparison of the amount with the available funds
place_bet_precheck_no_balance(path, w, e, o, amt) ==
    IF ~events[e].exists THEN "NotFound"
    ELSE IF path = "grpc" /\ events[e].status # "active" THEN "BusinessLogic:NotActive"
    ELSE IF path = "grpc" /\ o \notin Outcomes THEN "Validation"
    ELSE IF amt <= 0 THEN "Validation"
    ELSE IF o \notin Outcomes THEN "Internal"
    ELSE "ok"

\* The checks a place_bet makes before it locks funds, in source order.
\* BettingService::place_bet ("svc") loads the event and goes on;
\* the gRPC PlaceBet handler ("grpc") also requires an Active event and a
\* known outcome.  Both read the balance snapshot and run the AMM.
place_bet_precheck(path, w, e, o, amt) ==
    IF ~events[e].exists THEN "NotFound"
    ELSE IF path = "grpc" /\ events[e].status # "active" THEN "BusinessLogic:NotActive"
    ELSE IF path = "grpc" /\ o \notin Outcomes THEN "Validation"
    ELSE IF amt <= 0 THEN "Validation"
    ELSE IF available(bal[w]) < amt THEN "BusinessLogic:Insufficient"
    ELSE IF o \notin Outcomes THEN "Internal"
    ELSE "ok"

\* whether the handler got as far as get_or_create_balance
place_bet_reaches_balance(path, w, e, o, amt) ==
    place_bet_precheck(path, w, e, o, amt) \in {"BusinessLogic:Insufficient", "Internal", "ok"}

PlaceBetStart(p, path, w, e, o, amt, sh) ==
    /\ CanStart(p)
    /\ started' = started + 1
    /\ LET res == place_bet_precheck(path, w, e, o, Dec(amt))
           r == [NewReq("place_bet", path, w, e) EXCEPT
                    !.outcome = o, !.amount = Dec(amt), !.shares = sh]
       IN  /\ bal' = IF place_bet_reaches_balance(path, w, e, o, Dec(amt))
                     THEN get_or_create_balance(w) ELSE bal
           /\ IF res = "ok" THEN Continue(p, [r EXCEPT !.pc = "lock"])
              ELSE Respond(p, r, res)
    /\ UNCHANGED <<members, events, bets, txs, settlements, payouts, votes>>

\* the error a failed storage call becomes: the gRPC handlers answer
\* Status::internal, BettingService converts the repository error
storage_error(path, res) == IF path = "grpc" THEN "Internal" ELSE res

\* lock_for_bet, one transaction
PlaceBetLock(p) ==
    /\ req[p].kind = "place_bet" /\ req[p].pc = "lock"
    /\ LET r == req[p]
           res == lock_check(r.wallet, r.amount)
       IN  IF res = "ok"
           THEN /\ lock_for_bet(r.wallet, r.amount, r.event)
                /\ Continue(p, [r EXCEPT !.pc = "insert", !.locked = r.amount])
           ELSE /\ UNCHANGED <<bal, txs>>
                /\ Respond(p, r, storage_error(r.path, res))
    /\ UNCHANGED <<members, events, bets, settlements, payouts, votes, started>>

BetRow(id, e, u, o, sh, amt) ==
    [id |-> id, event |-> e, user |-> u, outcome |-> o, shares |-> sh, amount |-> amt]

\* BetRepository::create; a storage fault (insert_ok = FALSE) is an error
\* the handler returns as it is
PlaceBetInsert(p, insert_ok) ==
    /\ req[p].kind = "place_bet" /\ req[p].pc = "insert"
    /\ LET r == req[p]
       IN  IF insert_ok
           THEN /\ bets' = Append(bets, BetRow(Len(bets) + 1, r.event, r.wallet,
                                               r.outcome, r.shares, r.amount))
                /\ Respond(p, r, "ok")
           ELSE /\ bets' = bets
                /\ Respond(p, r, storage_error(r.path, "Sqlx"))
    /\ UNCHANGED <<members, events, bal, txs, settlements, payouts, votes, started>>

\* ------------------------------------------------------------ withdraw_funds
\* BettingService::withdraw_funds: snapshot check, on-chain withdrawal, then
\* debit_balance (which repeats the check under the row lock)
withdraw_precheck(w, amt) ==
    IF ~bal[w].exists THEN "BusinessLogic:NoBalance"
    ELSE IF available(bal[w]) < amt THEN "BusinessLogic:Insufficient"
    ELSE "ok"

WithdrawStart(p, w, amt, chain_ok) ==
    /\ CanStart(p)
    /\ started' = started + 1
    /\ LET res == withdraw_precheck(w, Dec(amt))
           r == [NewReq("withdraw", "svc", w, NoEvent) EXCEPT !.amount = Dec(amt)]
       IN  IF res # "ok" THEN Respond(p, r, res)
           ELSE IF ~chain_ok THEN Respond(p, r, "External")
           ELSE Continue(p, [r EXCEPT !.pc = "debit"])
    /\ UNCHANGED db

WithdrawDebit(p) ==
    /\ req[p].kind = "withdraw" /\ req[p].pc = "debit"
    /\ LET r == req[p]
           res == debit_check(r.wallet, r.amount)
       IN  IF res = "ok"
           THEN /\ debit_balance(r.wallet, r.amount, "withdrawal")
                /\ Respond(p, r, "ok")
           ELSE /\ UNCHANGED <<bal, txs>>
                /\ Respond(p, r, res)
    /\ UNCHANGED <<members, events, bets, settlements, payouts, votes, started>>

\* --------------------------------------------------------------- create_event
\* EventService::create_event / gRPC CreateEvent: creator must be a member,
\* at least two outcomes, the row is inserted Active with a minted pubkey
create_event_check(w, n_outcomes) ==
    IF members[w] = "none" THEN "Unauthorized"
    ELSE IF n_outcomes < 2 THEN "Validation"
    ELSE "ok"

CreateEvent(p, w, e, n_outcomes) ==
    /\ CanStart(p)
    /\ started' = started + 1
    /\ ~events[e].exists
    /\ LET res == create_event_check(w, n_outcomes)
           r == NewReq("create_event", "svc", w, e)
       IN  /\ events' = IF res = "ok"
                        THEN [events EXCEPT ![e] = [exists |-> TRUE, status |-> "active",
                                                    pubkey |-> TRUE]]
                        ELSE events
           /\ Respond(p, r, res)
    /\ UNCHANGED <<members, bets, bal, txs, settlements, payouts, votes>>

\* EventRepository::update_status(id, Cancelled), applied to an Active event
CancelEvent(e) ==
    /\ events[e].exists /\ events[e].status = "active"
    /\ events' = [events EXCEPT ![e].status = "cancelled"]
    /\ UNCHANGED <<members, bets, bal, txs, settlements, payouts, votes, req, last, started>>
    /\ UNCHANGED <<ws, amm, side>>

\* ----------------------------------------------------------------- settlement
\* bets of event e among the first n rows, newest first (find_by_event
\* orders by timestamp DESC)
RECURSIVE EventBets(_, _)
EventBets(e, n) ==
    IF n = 0 THEN <<>>
    ELSE IF bets[n].event = e THEN <<bets[n]>> \o EventBets(e, n - 1)
    ELSE EventBets(e, n - 1)

RECURSIVE SumField(_, _)
SumField(s, f) == IF s = <<>> THEN 0 ELSE Head(s)[f] + SumField(Tail(s), f)

Winning(bs, o) == SelectSeq(bs, LAMBDA b : b.outcome = o)

OfUser(bs, u) == SelectSeq(bs, LAMBDA b : b.user = u)

total_pool(e, n) == SumField(EventBets(e, n), "amount")

total_winning_shares(e, n, o) == SumField(Winning(EventBets(e, n), o), "shares")

\* payout = (user_winning_shares / total_winning_shares) * total_pool,
\* or the user's winning stake when there are no winning shares
payout_amount(uws, tws, pool, original_bet) ==
    IF tws > 0 THEN DecMul(DecDiv(uws, tws), pool) ELSE original_bet

RECURSIVE LossTasks(_)
LossTasks(bs) ==
    IF bs = <<>> THEN <<>>
    ELSE <<[op |-> "loss", user |-> Head(bs).user, shares |-> 0,
            a |-> Head(bs).amount, b |-> 0]>> \o LossTasks(Tail(bs))

\* the ledger calls the payout loop makes for one user, in order
UserTasks(u, e, n, o, pool, tws) ==
    LET ub == OfUser(EventBets(e, n), u)
        wb == Winning(ub, o)
        lb == SelectSeq(ub, LAMBDA b : b.outcome # o)
        uws == SumField(wb, "shares")
        orig == SumField(wb, "amount")
        pay == payout_amount(uws, tws, pool, orig)
    IN  (IF wb # <<>>
         THEN <<[op |-> "payout", user |-> u, shares |-> uws, a |-> pay, b |-> 0],
                [op |-> "win", user |-> u, shares |-> 0, a |-> orig, b |-> pay - orig]>>
         ELSE <<>>) \o LossTasks(lb)

BetUsers(e, n) == {EventBets(e, n)[i].user : i \in 1..Len(EventBets(e, n))}

HasSettlement(e) == \E i \in 1..Len(settlements) : settlements[i].event = e

\* a permission check that any member passes
verify_settler_permission_member(w) == members[w] # "none"

\* SettlementService::verify_settler_permission
verify_settler_permission(w) == members[w] = "admin"

\* checks before the settlement proper.  settle_manual ("svc") loads the
\* event and verifies the role; the gRPC SettleEvent handler ("grpc") also
\* requires an Active event and a known outcome; settle_oracle checks nothing
settle_precheck(path, kind, w, e, o) ==
    IF ~events[e].exists THEN "NotFound"
    ELSE IF kind = "settle_oracle" THEN "ok"
    ELSE IF path = "grpc" /\ events[e].status # "active" THEN "BusinessLogic:NotActive"
    ELSE IF ~verify_settler_permission(w) THEN "Unauthorized"
    ELSE IF path = "grpc" /\ o \notin Outcomes THEN "Validation"
    ELSE "ok"

\* settle_manual / gRPC SettleEvent
SettleStart(p, path, w, e, o) ==
    /\ CanStart(p)
    /\ started' = started + 1
    /\ LET res == settle_precheck(path, "settle_manual", w, e, o)
           r == [NewReq("settle_manual", path, w, e) EXCEPT !.outcome = o]
       IN  IF res # "ok" THEN Respond(p, r, res)
           ELSE Continue(p, [r EXCEPT !.pc = IF path = "grpc" THEN "read" ELSE "status"])
    /\ UNCHANGED db

\* settle_oracle: the winner is the event's first outcome, settler is SYSTEM
SettleOracleStart(p, e) ==
    /\ CanStart(p)
    /\ started' = started + 1
    /\ LET res == settle_precheck("svc", "settle_oracle", NoUser, e, "yes")
           r == NewReq("settle_oracle", "svc", NoUser, e)
       IN  IF res # "ok" THEN Respond(p, r, res)
           ELSE Continue(p, [r EXCEPT !.pc = "status"])
    /\ UNCHANGED db

IsSettle(r) == r.kind \in {"settle_manual", "settle_oracle", "vote"}

\* update_status(Resolved), then the on-chain settle call.  execute_settlement
\* needs the event's pubkey after it has written the status; the gRPC handler
\* settles without a chain call when there is none.
SettleStatus(p, chain_ok) ==
    /\ IsSettle(req[p]) /\ req[p].pc = "status"
    /\ LET r == req[p]
           e == r.event
       IN  /\ events' = [events EXCEPT ![e].status = "resolved"]
           /\ IF r.path = "svc" /\ ~events[e].pubkey
              THEN Respond(p, r, "BusinessLogic:NoPubkey")
              ELSE Continue(p, [r EXCEPT !.sig = IF ~events[e].pubkey THEN "no_chain"
                                                ELSE IF chain_ok THEN "tx" ELSE "offline",
                                        !.pc = IF r.path = "grpc" THEN "create" ELSE "read"])
    /\ UNCHANGED <<members, bets, bal, txs, settlements, payouts, votes, started>>

\* find_by_event and the totals computed from it
SettleRead(p) ==
    /\ IsSettle(req[p]) /\ req[p].pc = "read"
    /\ LET r == req[p]
           n == Len(bets)
       IN  Continue(p, [r EXCEPT !.snap = n,
                                 !.pool = total_pool(r.event, n),
                                 !.tws = total_winning_shares(r.event, n, r.outcome),
                                 !.pc = IF r.path = "grpc" THEN "status" ELSE "create"])
    /\ UNCHANGED <<db, started>>

\* settlements.event_id is unique: a second INSERT for the event fails
settlements_event_id_unique(e) == ~HasSettlement(e)

\* the error the caller gets when create_settlement fails: execute_settlement
\* converts the repository's Duplicate, the gRPC handler answers internal
create_settlement_error(path) ==
    IF path = "grpc" THEN "Internal" ELSE "BusinessLogic:Duplicate"

\* BalanceRepository::create_settlement, then the users of the payout loop
SettleCreate(p) ==
    /\ IsSettle(req[p]) /\ req[p].pc = "create"
    /\ LET r == req[p]
           e == r.event
           us == BetUsers(e, r.snap)
       IN  IF settlements_event_id_unique(e)
           THEN /\ settlements' = Append(settlements,
                      [event |-> e, outcome |-> r.outcome, pool |-> r.pool,
                       settler |-> r.wallet, sig |-> r.sig])
                /\ IF us = {} THEN Respond(p, r, "ok")
                   ELSE Continue(p, [r EXCEPT !.pc = "loop", !.left = us])
           ELSE /\ settlements' = settlements
                /\ Respond(p, r, create_settlement_error(r.path))
    /\ UNCHANGED <<members, events, bets, bal, txs, payouts, votes, started>>

\* one storage call of the payout loop: create_payout, settle_win or
\* settle_loss.  Users are visited in the order of a HashMap, each user's
\* calls in source order.
SettleTask(p) ==
    /\ IsSettle(req[p]) /\ req[p].pc = "loop"
    /\ LET r == req[p]
       IN  \E u \in (IF r.tasks = <<>> THEN r.left ELSE {Head(r.tasks).user}) :
             LET ts == IF r.tasks = <<>>
                       THEN UserTasks(u, r.event, r.snap, r.outcome, r.pool, r.tws)
                       ELSE r.tasks
                 t == Head(ts)
                 rest == Tail(ts)
                 left2 == r.left \ {u}
                 r2 == [r EXCEPT !.tasks = rest, !.left = left2]
             IN  /\ CASE t.op = "payout" ->
                           /\ payouts' = Append(payouts,
                                 [event |-> r.event, user |-> u, shares |-> t.shares,
                                  amount |-> t.a, claimed |-> FALSE,
                                  claimed_at |-> 0, sig |-> "none"])
                           /\ UNCHANGED <<bal, txs>>
                      [] t.op = "win" ->
                           /\ settle_win(u, t.a, t.b, r.event)
                           /\ UNCHANGED payouts
                      [] t.op = "loss" ->
                           /\ settle_loss(u, t.a, r.event)
                           /\ UNCHANGED payouts
                 /\ IF rest = <<>> /\ left2 = {} THEN Respond(p, r2, "ok")
                    ELSE Continue(p, r2)
    /\ UNCHANGED <<members, events, bets, settlements, votes, started>>

\* ------------------------------------------------------ submit_consensus_vote
member_count == Cardinality({u \in Users : members[u] # "none"})

threshold == (member_count * 2) \div 3

HasVoted(e, w) == \E i \in 1..Len(votes[e]) : votes[e][i].voter = w

Tally(vs, o) == Len(SelectSeq(vs, LAMBDA v : v.outcome = o))

\* outcomes with the highest count; max_by_key over a HashMap returns one
Leaders(vs) ==
    {o \in Outcomes : Tally(vs, o) > 0 /\ \A o2 \in Outcomes : Tally(vs, o2) <= Tally(vs, o)}

vote_precheck(w, e, o) ==
    IF ~events[e].exists THEN "NotFound"
    ELSE IF members[w] = "none" THEN "Unauthorized"
    ELSE IF o \notin Outcomes THEN "Validation"
    ELSE IF HasVoted(e, w) THEN "BusinessLogic:AlreadyVoted"
    ELSE "ok"

SubmitVote(p, w, e, o) ==
    /\ CanStart(p)
    /\ started' = started + 1
    /\ LET res == vote_precheck(w, e, o)
           r == [NewReq("vote", "svc", w, e) EXCEPT !.outcome = o]
           vs == Append(votes[e], [voter |-> w, outcome |-> o])
       IN  IF res # "ok"
           THEN /\ votes' = votes
                /\ Respond(p, r, res)
           ELSE /\ votes' = [votes EXCEPT ![e] = vs]
                /\ IF Len(vs) >= threshold
                   THEN \E win \in Leaders(vs) :
                          Continue(p, [r EXCEPT !.outcome = win, !.pc = "status"])
                   ELSE Respond(p, r, "false")
    /\ UNCHANGED <<members, events, bets, bal, txs, settlements, payouts>>

\* ---------------------------------------------------------------------- Next
Next ==
    \/ \E p \in Procs, w \in Callers, amt \in DepositAmounts, ok \in BOOLEAN :
          Deposit(p, w, amt, ok)
    \/ \E p \in Procs, path \in Paths, w \in Callers, e \in EventIds,
          o \in Outcomes, amt \in BetAmounts, sh \in UnitShares :
          PlaceBetStart(p, path, w, e, o, amt, sh)
    \/ \E p \in Procs : PlaceBetLock(p)
    \/ \E p \in Procs, ok \in BOOLEAN : PlaceBetInsert(p, ok)
    \/ \E p \in Procs, w \in Callers, amt \in DepositAmounts, ok \in BOOLEAN :
          WithdrawStart(p, w, amt, ok)
    \/ \E p \in Procs : WithdrawDebit(p)
    \/ \E p \in Procs, w \in Callers, e \in EventIds, n \in {1, 2} : CreateEvent(p, w, e, n)
    \/ \E e \in EventIds : CancelEvent(e)
    \/ \E p \in Procs, path \in Paths, w \in Callers, e \in EventIds, o \in Outcomes :
          SettleStart(p, path, w, e, o)
    \/ \E p \in Procs, e \in EventIds : SettleOracleStart(p, e)
    \/ \E p \in Procs, ok \in BOOLEAN : SettleStatus(p, ok)
    \/ \E p \in Procs : SettleRead(p)
    \/ \E p \in Procs : SettleCreate(p)
    \/ \E p \in Procs : SettleTask(p)

Spec == Init /\ [][Next]_vars

\* ------------------------------------------------------------- funded market
\* the state after u2 and u3 were invited, every member deposited once and
\* the admin created the event
InitMarket ==
    /\ members = [u \in Users |-> IF u = "u1" THEN "admin" ELSE "member"]
    /\ events = [e \in EventIds |-> [exists |-> TRUE, status |-> "active", pubkey |-> TRUE]]
    /\ bets = <<>>
    /\ \E amt \in DepositAmounts :
          /\ bal = [u \in Users |-> [exists |-> TRUE, balance |-> Dec(amt), locked |-> 0]]
          /\ txs = [u \in Users |-> <<TxRow("deposit", Dec(amt), 0, Dec(amt), NoEvent)>>]
    /\ settlements = <<>>
    /\ payouts = <<>>
    /\ votes = [e \in EventIds |-> <<>>]
    /\ req = [p \in Procs |-> IdleReq]
    /\ last = NoResponse
    /\ started = 0
    /\ NoClients
    /\ amm = NoAmm
    /\ NoSide

NextMarket ==
    \/ \E p \in OneSlot, path \in Paths, w \in Users, e \in EventIds,
          o \in Outcomes, amt \in BetAmounts, sh \in ShareChoices :
          PlaceBetStart(p, path, w, e, o, amt, sh)
    \/ \E p \in OneSlot : PlaceBetLock(p)
    \/ \E p \in OneSlot, ok \in BOOLEAN : PlaceBetInsert(p, ok)
    \/ \E p \in OneSlot, path \in Paths, w \in Callers, e \in EventIds, o \in Outcomes :
          SettleStart(p, path, w, e, o)
    \/ \E p \in OneSlot, ok \in BOOLEAN : SettleStatus(p, ok)
    \/ \E p \in OneSlot : SettleRead(p)
    \/ \E p \in OneSlot : SettleCreate(p)
    \/ \E p \in OneSlot : SettleTask(p)

SpecMarket == InitMarket /\ [][NextMarket]_vars

\* --------------------------------------------------------------- Merkle tree
\* SHA-256 is modelled as a collision-free term: a digest is the sequence of
\* integers that spells, in prefix form, what was hashed.
UserNo == [u \in Users |-> IF u = "u1" THEN 1 ELSE IF u = "u2" THEN 2 ELSE 3]

OutcomeNo == [o \in Outcomes |-> IF o = "yes" THEN 1 ELSE 2]

EventNo == [e \in EventIds |-> 1]

\* 32 zero bytes
ZeroHash == <<0>>

\* StateManager::hash_bet: digest of id:event:user:outcome:shares:amount
hash_bet(b) == <<1, b.id, EventNo[b.event], UserNo[b.user], OutcomeNo[b.outcome], b.shares, b.amount>>

\* StateManager::hash_pair: digest of left || right
hash_pair(l, r) == <<0>> \o l \o r

\* a pass that hands an odd last node up as it is
NextLevel_promoting_odd(lv) ==
    [i \in 1..((Len(lv) + 1) \div 2) |->
        LET l == lv[2 * i - 1]
        IN  IF 2 * i <= Len(lv)
            THEN [id |-> l.id, hash |-> hash_pair(l.hash, lv[2 * i].hash)]
            ELSE l]

\* one pass of the pairing loop: the parents, each under its left child's id
NextLevel(lv) ==
    [i \in 1..((Len(lv) + 1) \div 2) |->
        LET l == lv[2 * i - 1]
            r == IF 2 * i <= Len(lv) THEN lv[2 * i] ELSE lv[2 * i - 1]
        IN  [id |-> l.id, hash |-> hash_pair(l.hash, r.hash)]]

\* what the same pass pushes on the proof paths: a left node gets its right
\* neighbour (itself when it is the odd last one), a right node its left
PushPaths(lv, proofs) ==
    [id \in DOMAIN proofs |->
        IF \E j \in 1..Len(lv) : lv[j].id = id
        THEN LET j == CHOOSE k \in 1..Len(lv) : lv[k].id = id
                 sib == IF j % 2 = 1
                        THEN (IF j + 1 <= Len(lv) THEN lv[j + 1].hash ELSE lv[j].hash)
                        ELSE lv[j - 1].hash
             IN  Append(proofs[id], sib)
        ELSE proofs[id]]

RECURSIVE BuildLevels(_, _)
BuildLevels(lv, proofs) ==
    IF Len(lv) <= 1 THEN [root |-> lv[1].hash, proofs |-> proofs]
    ELSE BuildLevels(NextLevel(lv), PushPaths(lv, proofs))

\* StateManager::build_merkle_tree over (bet id, leaf hash) pairs
build_merkle_tree(leaves) ==
    IF leaves = <<>> THEN [root |-> ZeroHash, proofs |-> <<>>]
    ELSE BuildLevels(leaves, [id \in {leaves[i].id : i \in 1..Len(leaves)} |-> <<>>])

\* StateManager::generate_merkle_root: the event's bets as find_by_event
\* returns them
generate_merkle_root(e) ==
    LET bs == EventBets(e, Len(bets))
    IN  build_merkle_tree([i \in 1..Len(bs) |-> [id |-> bs[i].id, hash |-> hash_bet(bs[i])]])

\* StateManager::verify_proof: fold the path as (current, sibling)
RECURSIVE verify_fold(_, _)
verify_fold(current, path) ==
    IF path = <<>> THEN current
    ELSE verify_fold(hash_pair(current, Head(path)), Tail(path))

verify_proof(leaf_hash, path, root_hash) == verify_fold(leaf_hash, path) = root_hash

BetIds == 1..MaxRequests

\* EmergencyWithdrawalService::generate_merkle_proof
GenerateProof(p, e, id) ==
    /\ CanStart(p)
    /\ started' = started + 1
    /\ LET r == NewReq("merkle_proof", "svc", NoUser, e)
           tree == generate_merkle_root(e)
       IN  IF id > Len(bets) THEN Respond(p, r, "NotFound")
           ELSE IF bets[id].event # e THEN Respond(p, r, "Validation")
           ELSE IF id \notin DOMAIN tree.proofs THEN Respond(p, r, "NotFound")
           ELSE Continue(p, [r EXCEPT !.pc = "verify",
                                      !.leaf_hash = hash_bet(bets[id]),
                                      !.proof = tree.proofs[id],
                                      !.root = tree.root])
    /\ UNCHANGED db

\* verify_proof of the proof against the root it was generated with
VerifyProof(p) ==
    /\ req[p].kind = "merkle_proof" /\ req[p].pc = "verify"
    /\ LET r == req[p]
       IN  Respond(p, r, IF verify_proof(r.leaf_hash, r.proof, r.root) THEN "true" ELSE "false")
    /\ UNCHANGED <<db, started>>

NextMerkle ==
    \/ \E p \in OneSlot, path \in Paths, w \in Users, e \in EventIds,
          o \in Outcomes, amt \in BetAmounts, sh \in UnitShares :
          PlaceBetStart(p, path, w, e, o, amt, sh)
    \/ \E p \in OneSlot : PlaceBetLock(p)
    \/ \E p \in OneSlot, ok \in BOOLEAN : PlaceBetInsert(p, ok)
    \/ \E p \in OneSlot, e \in EventIds, id \in BetIds : GenerateProof(p, e, id)
    \/ \E p \in OneSlot : VerifyProof(p)

SpecMerkle == InitMarket /\ [][NextMerkle]_vars

\* ------------------------------------------------- proofs made by a caller
\* the leaves of the event's tree as generate_merkle_root makes them
Leaves(e) ==
    LET bs == EventBets(e, Len(bets))
    IN  [i \in 1..Len(bs) |-> [id |-> bs[i].id, hash |-> hash_bet(bs[i])]]

LeafHashes(e) == {Leaves(e)[i].hash : i \in 1..Len(Leaves(e))}

\* every digest of the tree: the leaves, the inner nodes and the root
RECURSIVE TreeNodes(_)
TreeNodes(lv) ==
    {lv[i].hash : i \in 1..Len(lv)}
        \cup (IF Len(lv) <= 1 THEN {} ELSE TreeNodes(NextLevel(lv)))

\* the leaf hashes of the event's bets with one field changed
TamperedLeaves(e) ==
    LET bs == EventBets(e, Len(bets))
    IN  UNION {{hash_bet([bs[i] EXCEPT !.amount = @ + 1]),
                hash_bet([bs[i] EXCEPT !.shares = @ + 1]),
                hash_bet([bs[i] EXCEPT !.outcome = IF @ = "yes" THEN "no" ELSE "yes"])} :
               i \in 1..Len(bs)}

\* MerkleProof.leaf_hash and MerkleProof.path are what the caller sends
ProofLeaves(e) == TamperedLeaves(e) \cup TreeNodes(Leaves(e))

ProofPaths(e) ==
    LET ns == TreeNodes(Leaves(e))
    IN  {<<>>} \cup {<<a>> : a \in ns} \cup {<<a, b>> : a \in ns, b \in ns}

\* StateManager::verify_proof of a caller's proof against the event's root
VerifyProofOf(p, e, leaf_hash, path) ==
    /\ CanStart(p)
    /\ started' = started + 1
    /\ Respond(p, NewReq("verify_proof", "svc", NoUser, e),
               IF verify_proof(leaf_hash, path, generate_merkle_root(e).root)
               THEN "true" ELSE "false")
    /\ UNCHANGED db

\* the caller sends any leaf hash and path it can make
VerifyCallerProof(p, e) ==
    \E leaf_hash \in ProofLeaves(e), path \in ProofPaths(e) :
        VerifyProofOf(p, e, leaf_hash, path)

NextProof ==
    \/ \E p \in OneSlot, path \in Paths, w \in Users, e \in EventIds,
          o \in Outcomes, amt \in BetAmounts, sh \in UnitShares :
          PlaceBetStart(p, path, w, e, o, amt, sh)
    \/ \E p \in OneSlot : PlaceBetLock(p)
    \/ \E p \in OneSlot, ok \in BOOLEAN : PlaceBetInsert(p, ok)
    \/ \E p \in OneSlot, e \in EventIds : VerifyCallerProof(p, e)

SpecProof == InitMarket /\ [][NextProof]_vars

\* ------------------------------------------------------- the three settlers
\* no bet is placed here, so the payout loop has nothing to do
NextVote ==
    \/ \E e \in EventIds : CancelEvent(e)
    \/ \E p \in OneSlot, path \in Paths, w \in Users, e \in EventIds,
          o \in Outcomes \cup {BadOutcome} : SettleStart(p, path, w, e, o)
    \/ \E p \in OneSlot, e \in EventIds : SettleOracleStart(p, e)
    \/ \E p \in OneSlot, w \in Users, e \in EventIds, o \in Outcomes \cup {BadOutcome} :
          SubmitVote(p, w, e, o)
    \/ \E p \in OneSlot, ok \in BOOLEAN : SettleStatus(p, ok)
    \/ \E p \in OneSlot : SettleRead(p)
    \/ \E p \in OneSlot : SettleCreate(p)

SpecVote == InitMarket /\ [][NextVote]_vars

\* ------------------------------------------------- consensus in small groups
\* a funded group of two or three members with its event created: u3 may
\* not have been invited
InitConsensus ==
    /\ members \in {[u \in Users |-> IF u = "u1" THEN "admin"
                                     ELSE IF u = "u2" THEN "member" ELSE r] :
                    r \in {"member", "none"}}
    /\ events = [e \in EventIds |-> [exists |-> TRUE, status |-> "active", pubkey |-> TRUE]]
    /\ bets = <<>>
    /\ \E amt \in DepositAmounts :
          /\ bal = [u \in Users |-> IF members[u] = "none" THEN NoBalance
                                    ELSE [exists |-> TRUE, balance |-> Dec(amt), locked |-> 0]]
          /\ txs = [u \in Users |-> IF members[u] = "none" THEN <<>>
                                    ELSE <<TxRow("deposit", Dec(amt), 0, Dec(amt), NoEvent)>>]
    /\ settlements = <<>>
    /\ payouts = <<>>
    /\ votes = [e \in EventIds |-> <<>>]
    /\ req = [p \in Procs |-> IdleReq]
    /\ last = NoResponse
    /\ started = 0
    /\ NoClients
    /\ amm = NoAmm
    /\ NoSide

SpecConsensus == InitConsensus /\ [][NextVote]_vars

\* ----------------------------------------------------------- group membership
\* GroupService::create_group: the group row, then add_member(Admin)
CreateGroup(p) ==
    /\ CanStart(p)
    /\ started' = started + 1
    /\ \A u \in Users : members[u] = "none"
    /\ members' = [members EXCEPT ![GroupAdmin] = "admin"]
    /\ Respond(p, NewReq("create_group", "svc", GroupAdmin, NoEvent), "ok")
    /\ UNCHANGED <<events, bets, bal, txs, settlements, payouts, votes>>

\* GroupMemberRepository::add_member: INSERT ... ON CONFLICT DO UPDATE SET role
add_member(u, role) == [members EXCEPT ![u] = role]

\* GroupService::invite_member: the inviter must be a member, the invited
\* wallet is added with role Member
InviteMember(p, inviter, invited) ==
    /\ CanStart(p)
    /\ started' = started + 1
    /\ LET r == NewReq("invite_member", "svc", inviter, NoEvent)
       IN  IF members[inviter] = "none"
           THEN /\ members' = members
                /\ Respond(p, r, "Unauthorized")
           ELSE /\ members' = add_member(invited, "member")
                /\ Respond(p, r, "ok")
    /\ UNCHANGED <<events, bets, bal, txs, settlements, payouts, votes>>

\* an empty database
InitNoGroup ==
    /\ members = [u \in Users |-> "none"]
    /\ events = [e \in EventIds |-> NoEventRow]
    /\ bets = <<>>
    /\ bal = [u \in Users |-> NoBalance]
    /\ txs = [u \in Users |-> <<>>]
    /\ settlements = <<>>
    /\ payouts = <<>>
    /\ votes = [e \in EventIds |-> <<>>]
    /\ req = [p \in Procs |-> IdleReq]
    /\ last = NoResponse
    /\ started = 0
    /\ NoClients
    /\ amm = NoAmm
    /\ NoSide

\* a group is created, members are invited, and its members create and
\* settle the event
NextGroup ==
    \/ \E p \in OneSlot : CreateGroup(p)
    \/ \E p \in OneSlot, inviter \in Users, invited \in Users : InviteMember(p, inviter, invited)
    \/ \E p \in OneSlot, w \in Users, e \in EventIds, n \in {1, 2} : CreateEvent(p, w, e, n)
    \/ \E p \in OneSlot, w \in Users, e \in EventIds, o \in Outcomes :
          SettleStart(p, "svc", w, e, o)
    \/ \E p \in OneSlot, ok \in BOOLEAN : SettleStatus(p, ok)
    \/ \E p \in OneSlot : SettleRead(p)
    \/ \E p \in OneSlot : SettleCreate(p)

SpecGroup == InitNoGroup /\ [][NextGroup]_vars

\* ------------------------------------------------------------ payout claims
PayoutIds == 1..MaxRequests

ClaimSigs == {"sigA", "sigB"}

\* BalanceRepository::mark_payout_claimed: UPDATE payouts SET claimed = TRUE,
\* claimed_at = NOW(), solana_tx_signature = $2 WHERE id = $1 RETURNING ...;
\* the time of the call is the number of the request
MarkPayoutClaimed(p, id, solana_sig) ==
    /\ CanStart(p)
    /\ started' = started + 1
    /\ LET r == NewReq("mark_payout_claimed", "svc", NoUser, NoEvent)
       IN  IF id > Len(payouts)
           THEN /\ payouts' = payouts
                /\ Respond(p, r, "NotFound")
           ELSE /\ payouts' = [payouts EXCEPT ![id].claimed = TRUE,
                                              ![id].claimed_at = started + 1,
                                              ![id].sig = solana_sig]
                /\ Respond(p, r, "ok")
    /\ UNCHANGED <<members, events, bets, bal, txs, settlements, votes>>

\* bets, one settlement and the claims of its payouts
NextClaim ==
    \/ \E p \in OneSlot, w \in Users, e \in EventIds, o \in Outcomes,
          amt \in BetAmounts, sh \in UnitShares :
          PlaceBetStart(p, "svc", w, e, o, amt, sh)
    \/ \E p \in OneSlot : PlaceBetLock(p)
    \/ \E p \in OneSlot, ok \in BOOLEAN : PlaceBetInsert(p, ok)
    \/ \E p \in OneSlot, e \in EventIds, o \in Outcomes : SettleStart(p, "svc", "u1", e, o)
    \/ \E p \in OneSlot, ok \in BOOLEAN : SettleStatus(p, ok)
    \/ \E p \in OneSlot : SettleRead(p)
    \/ \E p \in OneSlot : SettleCreate(p)
    \/ \E p \in OneSlot : SettleTask(p)
    \/ \E p \in OneSlot, id \in PayoutIds, sig \in ClaimSigs : MarkPayoutClaimed(p, id, sig)

SpecClaim == InitMarket /\ [][NextClaim]_vars

\* ------------------------------------------------------- the whole ledger
\* every ledger operation, one request at a time, in the funded market
NextLedger ==
    \/ \E p \in OneSlot, w \in Users, amt \in DepositAmounts, ok \in BOOLEAN :
          Deposit(p, w, amt, ok)
    \/ \E p \in OneSlot, w \in Users, amt \in DepositAmounts, ok \in BOOLEAN :
          WithdrawStart(p, w, amt, ok)
    \/ \E p \in OneSlot : WithdrawDebit(p)
    \/ \E p \in OneSlot, w \in Users, e \in EventIds, o \in Outcomes,
          amt \in BetAmounts, sh \in UnitShares :
          PlaceBetStart(p, "svc", w, e, o, amt, sh)
    \/ \E p \in OneSlot : PlaceBetLock(p)
    \/ \E p \in OneSlot, ok \in BOOLEAN : PlaceBetInsert(p, ok)
    \/ \E p \in OneSlot, e \in EventIds, o \in Outcomes : SettleStart(p, "svc", "u1", e, o)
    \/ \E p \in OneSlot, ok \in BOOLEAN : SettleStatus(p, ok)
    \/ \E p \in OneSlot : SettleRead(p)
    \/ \E p \in OneSlot : SettleCreate(p)
    \/ \E p \in OneSlot : SettleTask(p)

SpecLedger == InitMarket /\ [][NextLedger]_vars

\* --------------------------------------------------- WebSocket connections
\* tables and requests are not touched by the WebSocket server
rest == <<db, req, last, amm, side>>

\* the WsMessage values a publisher sends
PriceUpdate(e) == [type |-> "price_update", event_id |-> e, user |-> NoUser]

BetExecuted(w) == [type |-> "bet_executed", event_id |-> NoEvent, user |-> w]

EventSettled(e) == [type |-> "event_settled", event_id |-> e, user |-> NoUser]

WsMessages ==
    {PriceUpdate(e) : e \in EventIds} \cup {EventSettled(e) : e \in EventIds}
        \cup {BetExecuted(GroupAdmin)}

\* a message in the broadcast channel; channel, n and subs record for which
\* channel it was published, by which call, and who was subscribed then
Published(msg, ch, n) ==
    [type |-> msg.type, event_id |-> msg.event_id, user |-> msg.user,
     channel |-> ch, n |-> n,
     subs |-> {subscriptions[ch][i] : i \in 1..Len(subscriptions[ch])}]

\* handle_connection: handshake, tx.subscribe(), a fresh client id
Connect(c) ==
    /\ started < MaxRequests
    /\ started' = started + 1
    /\ conn[c].state = "none"
    /\ conn' = [conn EXCEPT ![c].state = "open"]
    /\ UNCHANGED <<subscriptions, client_channels, rx, sent, rest>>

\* WebSocketServer::subscribe: push on both lists
subscribe(c, ch) ==
    /\ subscriptions' = [subscriptions EXCEPT ![ch] = Append(@, c)]
    /\ client_channels' = [client_channels EXCEPT ![c] = Append(@, ch)]

\* an unsubscribe that forgets the channel's subscriber list
unsubscribe_channel_list_only(c, ch) ==
    /\ subscriptions' = subscriptions
    /\ client_channels' = [client_channels EXCEPT ![c] = SelectSeq(@, LAMBDA x : x # ch)]

\* WebSocketServer::unsubscribe: retain the other entries of both lists
unsubscribe(c, ch) ==
    /\ subscriptions' = [subscriptions EXCEPT ![ch] = SelectSeq(@, LAMBDA id : id # c)]
    /\ client_channels' = [client_channels EXCEPT ![c] = SelectSeq(@, LAMBDA x : x # ch)]

\* a Subscribe frame of client c
Subscribe(c, ch) ==
    /\ started < MaxRequests
    /\ started' = started + 1
    /\ conn[c].state = "open"
    /\ subscribe(c, ch)
    /\ UNCHANGED <<conn, rx, sent, rest>>

\* an Unsubscribe frame of client c
Unsubscribe(c, ch) ==
    /\ started < MaxRequests
    /\ started' = started + 1
    /\ conn[c].state = "open"
    /\ unsubscribe(c, ch)
    /\ UNCHANGED <<conn, rx, sent, rest>>

\* a Close frame or a transport error ends the receive loop; the task reads
\* get_client_channels and goes on to unsubscribe from each of them
Disconnect(c) ==
    /\ started < MaxRequests
    /\ started' = started + 1
    /\ conn[c].state = "open"
    /\ conn' = [conn EXCEPT ![c] =
                  [state |-> IF client_channels[c] = <<>> THEN "closed" ELSE "cleanup",
                   todo |-> client_channels[c], joined |-> client_channels[c]]]
    /\ rx' = [rx EXCEPT ![c] = <<>>]
    /\ UNCHANGED <<subscriptions, client_channels, sent, rest>>

\* one unsubscribe of the clean-up loop
Cleanup(c) ==
    /\ conn[c].state = "cleanup"
    /\ unsubscribe(c, Head(conn[c].todo))
    /\ conn' = [conn EXCEPT ![c].state =
                                  IF Tail(conn[c].todo) = <<>> THEN "closed" ELSE "cleanup",
                             ![c].todo = Tail(conn[c].todo)]
    /\ UNCHANGED <<rx, sent, started, rest>>

\* WebSocketServer::broadcast_to_channel: when the channel has a subscriber
\* the message goes into the one broadcast channel, that is to the receiver
\* of every open connection
broadcast_to_channel(rxs, ch, msg, n) ==
    IF Len(subscriptions[ch]) > 0
    THEN [c \in Clients |-> IF conn[c].state = "open"
                            THEN Append(rxs[c], Published(msg, ch, n)) ELSE rxs[c]]
    ELSE rxs

BroadcastPriceUpdate(e) ==
    /\ started < MaxRequests
    /\ started' = started + 1
    /\ rx' = broadcast_to_channel(rx, Channel("event", e), PriceUpdate(e), started + 1)
    /\ UNCHANGED <<subscriptions, client_channels, conn, sent, rest>>

BroadcastEventSettled(e) ==
    /\ started < MaxRequests
    /\ started' = started + 1
    /\ rx' = broadcast_to_channel(rx, Channel("event", e), EventSettled(e), started + 1)
    /\ UNCHANGED <<subscriptions, client_channels, conn, sent, rest>>

\* broadcast_bet_executed: the event channel, then the user's channel
BroadcastBetExecuted(e, w) ==
    /\ started < MaxRequests
    /\ started' = started + 1
    /\ rx' = broadcast_to_channel(
                broadcast_to_channel(rx, Channel("event", e), BetExecuted(w), started + 1),
                Channel("user", w), BetExecuted(w), started + 1)
    /\ UNCHANGED <<subscriptions, client_channels, conn, sent, rest>>

BroadcastToGroup(g, msg) ==
    /\ started < MaxRequests
    /\ started' = started + 1
    /\ rx' = broadcast_to_channel(rx, Channel("group", g), msg, started + 1)
    /\ UNCHANGED <<subscriptions, client_channels, conn, sent, rest>>

BroadcastToUser(w, msg) ==
    /\ started < MaxRequests
    /\ started' = started + 1
    /\ rx' = broadcast_to_channel(rx, Channel("user", w), msg, started + 1)
    /\ UNCHANGED <<subscriptions, client_channels, conn, sent, rest>>

is_client_subscribed(c, ch) ==
    \E i \in 1..Len(subscriptions[ch]) : subscriptions[ch][i] = c

\* the filter of the forwarding task
should_send(c, m) ==
    CASE m.type \in {"price_update", "event_settled"} ->
            is_client_subscribed(c, Channel("event", m.event_id))
      [] m.type = "bet_executed" -> TRUE
      [] OTHER -> FALSE

\* the forwarding task of client c takes the next message from its receiver
Deliver(c) ==
    /\ conn[c].state = "open"
    /\ rx[c] # <<>>
    /\ rx' = [rx EXCEPT ![c] = Tail(@)]
    /\ sent' = IF should_send(c, Head(rx[c]))
               THEN [sent EXCEPT ![c] = Append(@, Head(rx[c]))] ELSE sent
    /\ UNCHANGED <<subscriptions, client_channels, conn, started, rest>>

NextWs ==
    \/ \E c \in Clients : Connect(c)
    \/ \E c \in Clients, ch \in Channels : Subscribe(c, ch)
    \/ \E c \in Clients, ch \in Channels : Unsubscribe(c, ch)
    \/ \E c \in Clients : Disconnect(c)
    \/ \E c \in Clients : Cleanup(c)
    \/ \E e \in EventIds : BroadcastPriceUpdate(e)
    \/ \E e \in EventIds : BroadcastEventSettled(e)
    \/ \E e \in EventIds : BroadcastBetExecuted(e, GroupAdmin)
    \/ \E g \in GroupIds, msg \in WsMessages : BroadcastToGroup(g, msg)
    \/ \E msg \in WsMessages : BroadcastToUser(GroupAdmin, msg)
    \/ \E c \in Clients : Deliver(c)

SpecWs == InitMarket /\ [][NextWs]_vars

Abs(x) == IF x < 0 THEN 0 - x ELSE x

\* ------------------------------------------------------ concurrent voters
\* submit_consensus_vote in its two parts: what it reads before it takes the
\* write lock of consensus_votes, and what it does while it holds the lock
vote_prelock(w, e, o) ==
    IF ~events[e].exists THEN "NotFound"
    ELSE IF members[w] = "none" THEN "Unauthorized"
    ELSE IF o \notin Outcomes THEN "Validation"
    ELSE "ok"

VoteStart(p, w, e, o) ==
    /\ CanStart(p)
    /\ started' = started + 1
    /\ LET res == vote_prelock(w, e, o)
           r == [NewReq("vote", "svc", w, e) EXCEPT !.outcome = o]
       IN  IF res = "ok" THEN Continue(p, [r EXCEPT !.pc = "vote"])
           ELSE Respond(p, r, res)
    /\ UNCHANGED db

\* a check that finds nobody
already_voted_nobody(vs, w) == FALSE

\* event_votes.iter().any(|v| v.voter_wallet == voter_wallet)
already_voted(vs, w) == \E i \in 1..Len(vs) : vs[i].voter = w

\* under the write lock: the check for an earlier vote, the push, the count
VoteLocked(p) ==
    /\ req[p].kind = "vote" /\ req[p].pc = "vote"
    /\ LET r == req[p]
           e == r.event
           vs == Append(votes[e], [voter |-> r.wallet, outcome |-> r.outcome])
       IN  IF already_voted(votes[e], r.wallet)
           THEN /\ votes' = votes
                /\ Respond(p, r, "BusinessLogic:AlreadyVoted")
           ELSE /\ votes' = [votes EXCEPT ![e] = vs]
                /\ IF Len(vs) >= threshold
                   THEN \E win \in Leaders(vs) :
                          Continue(p, [r EXCEPT !.outcome = win, !.pc = "status"])
                   ELSE Respond(p, r, "false")
    /\ UNCHANGED <<members, events, bets, bal, txs, settlements, payouts, started>>

NextVoters ==
    \/ \E p \in Procs, w \in Users, e \in EventIds, o \in Outcomes : VoteStart(p, w, e, o)
    \/ \E p \in Procs : VoteLocked(p)
    \/ \E p \in Procs, ok \in BOOLEAN : SettleStatus(p, ok)
    \/ \E p \in Procs : SettleRead(p)
    \/ \E p \in Procs : SettleCreate(p)

SpecVoters == InitMarket /\ [][NextVoters]_vars

\* -------------------------------------------------------------- LMSR AMM
\* amm/lmsr.rs.  A Decimal of the AMM is an integer count of millionths;
\* products are cut and quotients rounded at that digit.
AmmScale == 1000000

\* AmmScale = Limb * Limb
Limb == 1000

AmmDec(num, den) == (num * AmmScale) \div den

Sign(x) == IF x < 0 THEN 0 - 1 ELSE 1

\* the element of a one-element set: its value is computed once
The(S) == CHOOSE x \in S : TRUE

\* |a| * |b| / AmmScale by limbs, so that no partial product leaves the range
MulAbs(a, b) ==
    LET a1 == a \div AmmScale
        a0 == a % AmmScale
        b1 == b \div AmmScale
        b0 == b % AmmScale
        a01 == a0 \div Limb
        a00 == a0 % Limb
        b01 == b0 \div Limb
        b00 == b0 % Limb
    IN  a1 * b + a0 * b1 + a01 * b01
           + (((a01 * b00 + a00 * b01) * Limb + a00 * b00) \div AmmScale)

\* Decimal * Decimal
AmmMul(a, b) == The({Sign(x) * Sign(y) * MulAbs(Abs(x), Abs(y)) : x \in {a}, y \in {b}})

\* r + r and r + s for r, s < b, as quotient and remainder by b
AddMod(r, s, b) == IF r >= b - s THEN [q |-> 1, r |-> r - (b - s)] ELSE [q |-> 0, r |-> r + s]

\* 10 * r = 2 * (2 * (2 * r) + r) as quotient and remainder by b, for r < b
TenTimes(r, b) ==
    LET r2 == AddMod(r, r, b)
        r4 == AddMod(r2.r, r2.r, b)
        r5 == AddMod(r4.r, r, b)
        r10 == AddMod(r5.r, r5.r, b)
    IN  [q |-> 2 * (2 * r2.q + r4.q + r5.q) + r10.q, r |-> r10.r]

\* long division: k more decimal digits of r / b appended to q
RECURSIVE DivDigits(_, _, _, _)
DivDigits(q, r, b, k) ==
    IF k = 0 THEN [q |-> q, r |-> r]
    ELSE The({DivDigits(q * 10 + t.q, t.r, b, k - 1) : t \in {TenTimes(r, b)}})

\* |a| / |b| rounded to the nearest millionth (ties to even)
DivAbs(a, b) ==
    LET d == The({DivDigits(a \div b, a % b, b, 6)})
    IN  IF d.r > b - d.r \/ (d.r = b - d.r /\ d.q % 2 = 1) THEN d.q + 1 ELSE d.q

\* Decimal / Decimal
AmmDiv(a, b) == The({Sign(x) * Sign(y) * DivAbs(Abs(x), Abs(y)) : x \in {a}, y \in {b}})

Max(a, b) == IF a >= b THEN a ELSE b

Min(a, b) == IF a <= b THEN a ELSE b

RECURSIVE SumSeq(_)
SumSeq(q) == The({IF s = <<>> THEN 0 ELSE Head(s) + SumSeq(Tail(s)) : s \in {q}})

\* LmsrAmm::new: every caller passes Decimal::new(100, 0)
liquidity_parameter == AmmDec(100, 1)

min_price == AmmDec(1, 100)

max_price == AmmDec(99, 100)

\* LmsrAmm::exp_approximation
exp_approximation(x) ==
    The({The({The({Max(AmmScale + v + AmmDiv(x_squared, AmmDec(2, 1))
                         + AmmDiv(x_cubed, AmmDec(6, 1))
                         + AmmDiv(AmmMul(x_cubed, v), AmmDec(24, 1)), 0) :
                   x_cubed \in {AmmMul(x_squared, v)}}) :
              x_squared \in {AmmMul(v, v)}}) :
         v \in {x}})

\* LmsrAmm::ln_approximation.  From diff = 6 on, diff - diff^2 / 2 is below
\* -10 and the clamp answers -10, so the square is not taken there.
ln_approximation(x) ==
    The({IF Abs(v - AmmScale) < AmmDec(1, 10)
         THEN The({AmmMul(AmmDec(2, 1),
                          t + AmmDiv(AmmMul(AmmMul(t, t), t), AmmDec(3, 1))) :
                   t \in {AmmDiv(v - AmmScale, v + AmmScale)}})
         ELSE LET diff == v - AmmScale
              IN  IF diff >= AmmDec(6, 1) THEN AmmDec(0 - 10, 1)
                  ELSE Min(Max(diff - AmmDiv(AmmMul(diff, diff), AmmDec(2, 1)),
                               AmmDec(0 - 10, 1)), AmmDec(10, 1)) :
         v \in {x}})

ExpValues(q) ==
    The({[i \in 1..Len(s) |-> exp_approximation(AmmDiv(s[i], liquidity_parameter))] :
         s \in {q}})

\* LmsrAmm::calculate_cost
calculate_cost(q) == AmmMul(liquidity_parameter, ln_approximation(SumSeq(ExpValues(q))))

Constrain(price) == The({Min(Max(v, min_price), max_price) : v \in {price}})

\* the prices divided by their sum
Scaled(prices) ==
    The({[i \in 1..Len(ps) |-> AmmDiv(ps[i], sum)] : ps \in {prices}, sum \in {SumSeq(prices)}})

\* LmsrAmm::normalize_prices: scale, constrain again, scale again
normalize_prices(prices) ==
    Scaled(The({[i \in 1..Len(ps) |-> Constrain(ps[i])] : ps \in {Scaled(prices)}}))

\* LmsrAmm::calculate_prices
calculate_prices(q) ==
    The({IF SumSeq(s) = 0 THEN [i \in 1..Len(s) |-> AmmDiv(AmmScale, Len(s) * AmmScale)]
         ELSE The({normalize_prices(The({[i \in 1..Len(s) |-> Constrain(ps[i])] :
                                        ps \in {Scaled(exp_values)}})) :
                   exp_values \in {ExpValues(s)}}) :
         s \in {q}})

max_iterations == 10

tolerance == AmmDec(1, 10000)

\* Decimal::new(1, 6), the least number of shares a buy gives
min_shares == 1

\* the largest holding of one outcome the arithmetic above carries
MaxShares == 600

\* the refinement loop of calculate_buy; the answer is none when the shares
\* leave the range carried here
RECURSIVE Refine(_, _, _, _, _, _, _)
Refine(q, k, amount_usdc, current_price, cost_before, shares_received, iterations) ==
    IF q[k] + shares_received > AmmDec(MaxShares, 1) THEN 0 - 1
    ELSE IF iterations >= max_iterations THEN shares_received
    ELSE The({IF Abs(cost_diff - amount_usdc) < tolerance THEN shares_received
              ELSE IF Abs(amount_usdc - cost_diff) > MaxShares * current_price THEN 0 - 1
              ELSE The({Refine(q, k, amount_usdc, current_price, cost_before,
                               IF adjusted <= 0 THEN min_shares ELSE adjusted,
                               iterations + 1) :
                        adjusted \in {shares_received
                                        + AmmDiv(amount_usdc - cost_diff, current_price)}}) :
              cost_diff \in {calculate_cost([q EXCEPT ![k] = @ + shares_received])
                               - cost_before}})

\* LmsrAmm::calculate_buy of outcome k
calculate_buy(q, k, amount_usdc) ==
    The({LET shares_received == Max(refined, min_shares)
             new_prices == The({calculate_prices([q EXCEPT ![k] = @ + shares_received])})
         IN  IF refined < 0 THEN NoBuy
             ELSE [ok |-> TRUE, outcome |-> k, amount |-> amount_usdc,
                   shares |-> shares_received, price |-> new_prices[k],
                   new_prices |-> new_prices] :
         refined \in {The({Refine(q, k, amount_usdc, current_price, cost_before,
                                  AmmDiv(amount_usdc, current_price), 0) :
                           current_price \in {calculate_prices(q)[k]},
                           cost_before \in {calculate_cost(q)}})}})

\* events have at least two outcomes
OutcomeCounts == {2, 3, 4}

ShareLots == {300}

AmmAmounts == {AmmDec(1, 1000), AmmDec(1, 10)}

\* LmsrAmm::new for a market of n outcomes
NewAmm(n) ==
    /\ amm = NoAmm
    /\ amm' = [NoAmm EXCEPT !.n = n, !.shares = [i \in 1..n |-> 0]]
    /\ UNCHANGED <<db, req, last, started, ws, side>>

\* LmsrAmm::update_shares
UpdateShares(k, lot) ==
    /\ k \in 1..amm.n
    /\ started < MaxRequests
    /\ amm.shares[k] + AmmDec(lot, 1) <= AmmDec(MaxShares, 1)
    /\ started' = started + 1
    /\ amm' = [amm EXCEPT !.shares[k] = @ + AmmDec(lot, 1), !.prices = <<>>, !.buy = NoBuy]
    /\ UNCHANGED <<db, req, last, ws, side>>

\* LmsrAmm::get_prices
GetPrices ==
    /\ amm.n > 0 /\ amm.prices = <<>>
    /\ amm' = [amm EXCEPT !.prices = calculate_prices(amm.shares)]
    /\ UNCHANGED <<db, req, last, started, ws, side>>

\* LmsrAmm::calculate_buy for a positive amount
CalculateBuy(k, amount_usdc) ==
    /\ k \in 1..amm.n
    /\ ~amm.buy.ok
    /\ LET res == calculate_buy(amm.shares, k, amount_usdc)
       IN  /\ res.ok
           /\ amm' = [amm EXCEPT !.buy = res]
    /\ UNCHANGED <<db, req, last, started, ws, side>>

NextAmm ==
    \/ \E n \in OutcomeCounts : NewAmm(n)
    \/ \E k \in 1..4, lot \in ShareLots : UpdateShares(k, lot)
    \/ GetPrices
    \/ \E k \in 1..4, a \in AmmAmounts : CalculateBuy(k, a)

SpecAmm == InitMarket /\ [][NextAmm]_vars

\* ------------------------------------------------------------------- auth
\* auth::verify_auth_with_timestamp: the replay window in seconds
ReplayWindow == 300

\* chrono::Utc::now().timestamp() while the request is handled
now == 1000

\* the timestamps a request may carry: inside, on the edge of and outside
\* the replay window, on both sides of the clock
Timestamps ==
    {now - ReplayWindow - 1, now - ReplayWindow, now, now + ReplayWindow,
     now + ReplayWindow + 1}

Signatures == {"", "valid"}

\* auth::verify_signature: an empty signature parses in no mode
verify_signature(sig) == IF sig = "" THEN "Validation" ELSE "ok"

verify_auth_with_timestamp(timestamp, sig) ==
    IF Abs(now - timestamp) > ReplayWindow THEN "Unauthorized"
    ELSE verify_signature(sig)

\* the timestamp a handler hands to verify_auth_with_timestamp: the domain
\* services pass the request's, the gRPC handlers pass the server clock
auth_timestamp(path, ts) == IF path = "grpc" THEN now ELSE ts

\* the handler answers the error of the failed authentication
AuthFailed(p, r, res) ==
    /\ CanStart(p)
    /\ started' = started + 1
    /\ Respond(p, r, res)
    /\ UNCHANGED db

\* place_bet with its first step, the authentication
AuthPlaceBet(p, path, w, e, o, amt, sh, ts, sig) ==
    LET res == verify_auth_with_timestamp(auth_timestamp(path, ts), sig)
    IN  IF res = "ok" THEN PlaceBetStart(p, path, w, e, o, amt, sh)
        ELSE AuthFailed(p, NewReq("place_bet", path, w, e), res)

\* BettingService::deposit_funds with its first step, the authentication
AuthDeposit(p, w, amt, chain_ok, ts, sig) ==
    LET res == verify_auth_with_timestamp(auth_timestamp("svc", ts), sig)
    IN  IF res = "ok" THEN Deposit(p, w, amt, chain_ok)
        ELSE AuthFailed(p, NewReq("deposit", "svc", w, NoEvent), res)

NextAuth ==
    \/ \E p \in OneSlot, path \in Paths, w \in Users, e \in EventIds,
          o \in Outcomes, amt \in BetAmounts, sh \in ShareChoices,
          ts \in Timestamps, sig \in Signatures :
          AuthPlaceBet(p, path, w, e, o, amt, sh, ts, sig)
    \/ \E p \in OneSlot : PlaceBetLock(p)
    \/ \E p \in OneSlot, ok \in BOOLEAN : PlaceBetInsert(p, ok)
    \/ \E p \in OneSlot, w \in Users, amt \in DepositAmounts, ok \in BOOLEAN,
          ts \in Timestamps, sig \in Signatures :
          AuthDeposit(p, w, amt, ok, ts, sig)

SpecAuth == InitMarket /\ [][NextAuth]_vars

\* ---------------------------------------------------------------- committer
\* committer.rs.  Two events, e1 created before e2; bets large enough to
\* reach the volume threshold.
CommitEvents == {"e1", "e2"}

CommitBets == {500}

CommitDeposits == {2500}

\* Committer::new: $1000 in USDC cents
min_volume_threshold == 100000

\* the failure of one call of a loop iteration, if any
CommitFailures == {"none", "volume", "tree", "slot", "chain"}

\* EventRepository::find_active_events: WHERE status = 'active'
\* ORDER BY created_at DESC
find_active_events_any_status ==
    SelectSeq(<<"e2", "e1">>, LAMBDA e : events[e].exists)

find_active_events ==
    SelectSeq(<<"e2", "e1">>, LAMBDA e : events[e].exists /\ events[e].status = "active")

\* BetRepository::get_total_volume_for_event: COALESCE(SUM(amount_usdc), 0)
get_total_volume(e) == SumField(EventBets(e, Len(bets)), "amount")

\* (v * 100).to_u64().unwrap_or(0)
volume_cents(e) ==
    LET v == (get_total_volume(e) * 100) \div DecScale
    IN  IF v < 0 THEN 0 ELSE v

\* Committer::start: a tick begins commit_pending_states, which reads the
\* active events; a failed query ends the tick in the error log
Tick(query_ok) ==
    /\ committer.pc = "sleep"
    /\ LET active == find_active_events
           c == [IdleCommitter EXCEPT !.result = committer.result]
       IN  committer' =
               IF ~query_ok THEN [c EXCEPT !.result = "err"]
               ELSE IF active = <<>> THEN [c EXCEPT !.result = "ok"]
               ELSE [c EXCEPT !.pc = "loop",
                              !.active_events =
                                  [i \in 1..Len(active) |->
                                      [id |-> active[i],
                                       status |-> events[active[i]].status,
                                       solana_pubkey |-> events[active[i]].pubkey]],
                              !.found = {active[i] : i \in 1..Len(active)}]
    /\ UNCHANGED <<db, req, last, started, ws, amm, users, treasury>>

\* one iteration of the loop of commit_pending_states
CommitEvent(failure) ==
    /\ committer.pc = "loop"
    /\ LET event == Head(committer.active_events)
           left == Tail(committer.active_events)
           c == [committer EXCEPT !.processed = @ \cup {event.id}]
           continue(cc) ==
               IF left = <<>>
               THEN [cc EXCEPT !.pc = "sleep", !.active_events = <<>>, !.result = "ok"]
               ELSE [cc EXCEPT !.active_events = left]
           abort(cc) == [cc EXCEPT !.pc = "sleep", !.active_events = <<>>, !.result = "err"]
       IN  committer' =
               IF ~event.solana_pubkey THEN continue(c)
               ELSE IF failure = "volume" THEN abort(c)
               ELSE IF volume_cents(event.id) < min_volume_threshold THEN continue(c)
               ELSE IF failure \in {"tree", "slot"} THEN abort(c)
               ELSE continue([c EXCEPT !.published = @ \cup
                                 {[id |-> event.id, status |-> event.status,
                                   solana_pubkey |-> event.solana_pubkey,
                                   volume_cents |-> volume_cents(event.id),
                                   ok |-> failure # "chain"]}])
    /\ UNCHANGED <<db, req, last, started, ws, amm, users, treasury>>

InitCommitter ==
    /\ members = [u \in Users |-> IF u = "u1" THEN "admin" ELSE "member"]
    /\ events \in [CommitEvents -> {[exists |-> TRUE, status |-> "active", pubkey |-> k] :
                                     k \in BOOLEAN}]
    /\ bets = <<>>
    /\ \E amt \in CommitDeposits :
          /\ bal = [u \in Users |-> [exists |-> TRUE, balance |-> Dec(amt), locked |-> 0]]
          /\ txs = [u \in Users |-> <<TxRow("deposit", Dec(amt), 0, Dec(amt), NoEvent)>>]
    /\ settlements = <<>>
    /\ payouts = <<>>
    /\ votes = [e \in EventIds |-> <<>>]
    /\ req = [p \in Procs |-> IdleReq]
    /\ last = NoResponse
    /\ started = 0
    /\ NoClients
    /\ amm = NoAmm
    /\ NoSide

NextCommitter ==
    \/ \E query_ok \in BOOLEAN : Tick(query_ok)
    \/ \E failure \in CommitFailures : CommitEvent(failure)
    \/ \E p \in OneSlot, e \in CommitEvents, amt \in CommitBets :
          PlaceBetStart(p, "grpc", "u1", e, "yes", amt, 1)
    \/ \E p \in OneSlot : PlaceBetLock(p)
    \/ \E p \in OneSlot, ok \in BOOLEAN : PlaceBetInsert(p, ok)
    \/ \E e \in CommitEvents : CancelEvent(e)

SpecCommitter == InitCommitter /\ [][NextCommitter]_vars

\* ------------------------------------------------------------------- users
\* user_repository.rs.  A user id is the position of the row in creation
\* order; a handler answers with the id's text.
UserIdText == <<"user1", "user2", "user3", "user4">>

\* UserRepository::find_by_wallet: the ids of the rows of the wallet
find_by_wallet(w) == {users[i].id : i \in {j \in 1..Len(users) : users[j].wallet_address = w}}

\* users.wallet_address is unique: an INSERT of a wallet that has a row fails
\* ("duplicate key value violates unique constraint")
users_wallet_address_unique(w) == find_by_wallet(w) = {}

\* UserRepository::find_or_create_by_wallet, the SELECT
FindOrCreateStart(p, w) ==
    /\ CanStart(p)
    /\ started' = started + 1
    /\ LET r == NewReq("find_or_create", "svc", w, NoEvent)
           found == find_by_wallet(w)
       IN  IF found # {}
           THEN Respond(p, r, UserIdText[CHOOSE id \in found : TRUE])
           ELSE Continue(p, [r EXCEPT !.pc = "create"])
    /\ UNCHANGED db

\* UserRepository::find_or_create_by_wallet, the INSERT (UserRepository::create)
\* that follows a SELECT that found no row
FindOrCreateInsert(p) ==
    /\ req[p].kind = "find_or_create" /\ req[p].pc = "create"
    /\ LET r == req[p]
           id == Len(users) + 1
       IN  IF users_wallet_address_unique(r.wallet)
           THEN /\ users' = Append(users, UserRow(id, r.wallet))
                /\ last' = [kind |-> r.kind, path |-> r.path, at |-> r.pc,
                            result |-> UserIdText[id]]
           ELSE /\ users' = users
                /\ last' = [kind |-> r.kind, path |-> r.path, at |-> r.pc,
                            result |-> "Database:unique_violation"]
    /\ req' = [req EXCEPT ![p] = IdleReq]
    /\ UNCHANGED <<db, started, ws, amm, committer, treasury>>

\* nobody, or only u1, has been referred to so far
InitUsers ==
    /\ members = [u \in Users |-> "none"]
    /\ events = [e \in EventIds |-> NoEventRow]
    /\ bets = <<>>
    /\ bal = [u \in Users |-> NoBalance]
    /\ txs = [u \in Users |-> <<>>]
    /\ settlements = <<>>
    /\ payouts = <<>>
    /\ votes = [e \in EventIds |-> <<>>]
    /\ req = [p \in Procs |-> IdleReq]
    /\ last = NoResponse
    /\ started = 0
    /\ NoClients
    /\ amm = NoAmm
    /\ committer = IdleCommitter
    /\ users \in {<<>>, <<UserRow(1, "u1")>>}
    /\ treasury = NoTreasury

NextUsers ==
    \/ \E p \in Procs, w \in Users : FindOrCreateStart(p, w)
    \/ \E p \in Procs : FindOrCreateInsert(p)

SpecUsers == InitUsers /\ [][NextUsers]_vars

\* ------------------------------------------------- events without a pubkey
\* EventRepository::create inserts no solana_pubkey: the column is NULL until
\* update_solana_pubkey.  The market of InitMarket with such events.
InitUnpublished ==
    /\ members = [u \in Users |-> IF u = "u1" THEN "admin" ELSE "member"]
    /\ events \in [EventIds -> {[exists |-> TRUE, status |-> "active", pubkey |-> k] :
                                 k \in BOOLEAN}]
    /\ bets = <<>>
    /\ \E amt \in DepositAmounts :
          /\ bal = [u \in Users |-> [exists |-> TRUE, balance |-> Dec(amt), locked |-> 0]]
          /\ txs = [u \in Users |-> <<TxRow("deposit", Dec(amt), 0, Dec(amt), NoEvent)>>]
    /\ settlements = <<>>
    /\ payouts = <<>>
    /\ votes = [e \in EventIds |-> <<>>]
    /\ req = [p \in Procs |-> IdleReq]
    /\ last = NoResponse
    /\ started = 0
    /\ NoClients
    /\ amm = NoAmm
    /\ NoSide

SpecUnpublished == InitUnpublished /\ [][NextMarket]_vars

\* ---------------------------------------------- credit_balance, statement-wise
\* BalanceRepository::credit_balance as the database runs it: SELECT ... FOR
\* UPDATE locks the row only if there is one.  With a row the transaction is
\* one step (credit_balance above); without one the transaction holds no lock
\* and its upsert waits for, and then adds to, whatever committed meanwhile.
DepositSelect(p, w, amt) ==
    /\ CanStart(p)
    /\ started' = started + 1
    /\ LET r == [NewReq("deposit", "svc", w, NoEvent) EXCEPT !.amount = Dec(amt)]
       IN  IF bal[w].exists
           THEN /\ credit_balance(w, Dec(amt), "deposit")
                /\ Respond(p, r, "ok")
           ELSE /\ UNCHANGED <<bal, txs>>
                /\ Continue(p, [r EXCEPT !.pc = "upsert", !.snap = 0])
    /\ UNCHANGED <<members, events, bets, settlements, payouts, votes>>

\* INSERT ... ON CONFLICT DO UPDATE SET balance_usdc = balance_usdc + $3, then
\* the transaction row written from the balance_before read by the SELECT
DepositUpsert(p) ==
    /\ req[p].kind = "deposit" /\ req[p].pc = "upsert"
    /\ LET r == req[p]
           balance_before == r.snap
           balance_after == balance_before + r.amount
       IN  /\ bal' = [bal EXCEPT ![r.wallet] =
                         [exists |-> TRUE,
                          balance |-> (IF bal[r.wallet].exists THEN bal[r.wallet].balance
                                       ELSE 0) + r.amount,
                          locked |-> IF bal[r.wallet].exists THEN bal[r.wallet].locked ELSE 0]]
           /\ txs' = [txs EXCEPT ![r.wallet] =
                         Append(@, TxRow("deposit", r.amount, balance_before,
                                         balance_after, NoEvent))]
           /\ Respond(p, r, "ok")
    /\ UNCHANGED <<members, events, bets, settlements, payouts, votes, started>>

NextJournal ==
    \/ \E p \in Procs, w \in Callers, amt \in DepositAmounts : DepositSelect(p, w, amt)
    \/ \E p \in Procs : DepositUpsert(p)
    \/ \E p \in Procs, w \in Callers, amt \in DepositAmounts, chain_ok \in BOOLEAN :
          WithdrawStart(p, w, amt, chain_ok)
    \/ \E p \in Procs : WithdrawDebit(p)

SpecJournal == Init /\ [][NextJournal]_vars

\* ------------------------------------------------------------ treasury program
\* EmergencyWithdraw::TIMELOCK_SECONDS, 7 days
TIMELOCK_SECONDS == 7 * 24 * 60 * 60

\* the moments at which instructions arrive
Times ==
    {Genesis, Genesis + TIMELOCK_SECONDS - 1, Genesis + TIMELOCK_SECONDS,
     Genesis + 2 * TIMELOCK_SECONDS - 1, Genesis + 2 * TIMELOCK_SECONDS}

Signers == {"admin", "other"}

TokenAmounts == {0, 1}

\* the clock of the chain moves on
Warp(t) ==
    /\ t > treasury.clock
    /\ treasury' = [treasury EXCEPT !.clock = t]
    /\ UNCHANGED <<db, req, last, started, ws, amm, committer, users>>

\* emergency_withdraw handler without the timelock test
emergency_withdraw_no_timelock(w, request_id, signer, sol_amount, usdc_amount) ==
    IF signer # "admin" THEN "Unauthorized"
    ELSE IF ~(sol_amount > 0 \/ usdc_amount > 0) THEN "InvalidAmount"
    ELSE IF w.request_id = request_id /\ w.status = "Pending"
    THEN IF w.executed_at # <<>> THEN "WithdrawAlreadyExecuted"
         ELSE IF treasury.sol < w.sol_amount \/ treasury.usdc < w.usdc_amount
         THEN "InsufficientBalance"
         ELSE "Executed"
    ELSE IF ~(w.request_id = 0 \/ w.status # "Pending") THEN "WithdrawAlreadyExecuted"
    ELSE IF w.request_id = request_id /\ w.status = "Executed"
    THEN "WithdrawAlreadyExecuted"
    ELSE "Requested"

\* emergency_withdraw handler: the error it fails with, or what it does
emergency_withdraw(w, request_id, signer, sol_amount, usdc_amount) ==
    IF signer # "admin" THEN "Unauthorized"
    ELSE IF ~(sol_amount > 0 \/ usdc_amount > 0) THEN "InvalidAmount"
    ELSE IF w.request_id = request_id /\ w.status = "Pending"
    THEN IF ~(w.unlock_at <= treasury.clock) THEN "TimelockNotExpired"
         ELSE IF w.status # "Pending" THEN "WithdrawAlreadyExecuted"
         ELSE IF w.executed_at # <<>> THEN "WithdrawAlreadyExecuted"
         ELSE IF treasury.sol < w.sol_amount \/ treasury.usdc < w.usdc_amount
         THEN "InsufficientBalance"
         ELSE "Executed"
    ELSE IF ~(w.request_id = 0 \/ w.status # "Pending") THEN "WithdrawAlreadyExecuted"
    ELSE IF w.request_id = request_id /\ w.status = "Executed"
    THEN "WithdrawAlreadyExecuted"
    ELSE "Requested"

\* the emergency_withdraw instruction; a failed instruction changes no account
EmergencyWithdraw(request_id, signer, sol_amount, usdc_amount) ==
    /\ LET w == treasury.withdraw[request_id]
           res == emergency_withdraw(w, request_id, signer, sol_amount, usdc_amount)
           t == [treasury EXCEPT !.last = [ix |-> "emergency_withdraw",
                                           id |-> request_id, result |-> res]]
       IN  treasury' =
               IF res = "Executed"
               THEN [t EXCEPT !.sol = @ - w.sol_amount,
                              !.usdc = @ - w.usdc_amount,
                              !.withdraw[request_id].status = "Executed",
                              !.withdraw[request_id].executed_at = <<treasury.clock>>]
               ELSE IF res = "Requested"
               THEN [t EXCEPT !.withdraw[request_id] =
                        [request_id |-> request_id, sol_amount |-> sol_amount,
                         usdc_amount |-> usdc_amount,
                         requested_at |-> treasury.clock,
                         unlock_at |-> treasury.clock + TIMELOCK_SECONDS,
                         executed_at |-> <<>>, status |-> "Pending"]]
               ELSE t
    /\ UNCHANGED <<db, req, last, started, ws, amm, committer, users>>

\* close_emergency_withdraw: an Executed account is closed
CloseEmergencyWithdraw(request_id) ==
    /\ LET w == treasury.withdraw[request_id]
           ok == w.status = "Executed"
           t == [treasury EXCEPT !.last =
                    [ix |-> "close_emergency_withdraw", id |-> request_id,
                     result |-> IF ok THEN "Closed" ELSE "WithdrawAlreadyExecuted"]]
       IN  treasury' = IF ok THEN [t EXCEPT !.withdraw[request_id] = ZeroWithdraw] ELSE t
    /\ UNCHANGED <<db, req, last, started, ws, amm, committer, users>>

\* lists of SettlementEntry a batch_settle is called with
Entry(user, amount, token_type) ==
    [user |-> user, amount |-> amount, token_type |-> token_type]

SettlementLists ==
    {<<>>, <<Entry("u1", 1, "Sol")>>, <<Entry("u1", 0, "Usdc")>>,
     <<Entry("u1", 1, "Sol"), Entry("u2", 1, "Usdc")>>}

TotalOf(entries, token_type) ==
    SumField(SelectSeq(entries, LAMBDA x : x.token_type = token_type), "amount")

\* batch_settle handler: the error it fails with, or "Executed".  An account
\* whose batch_id is 0 is taken for a new one and made Pending first.
batch_settle(b, batch_id, signer, entries, accounts_ok) ==
    IF ~(Len(entries) > 0 /\ Len(entries) <= 100) THEN "InvalidSettlement"
    ELSE IF signer # "admin" THEN "Unauthorized"
    ELSE IF (IF b.batch_id = 0 THEN "Pending" ELSE b.status) # "Pending"
    THEN "BatchAlreadyExecuted"
    ELSE IF \E i \in 1..Len(entries) : ~(entries[i].amount > 0)
    THEN "InvalidAmount"
    ELSE IF treasury.sol < TotalOf(entries, "Sol")
            \/ treasury.usdc < TotalOf(entries, "Usdc")
    THEN "InsufficientBalance"
    ELSE IF ~accounts_ok THEN "InvalidSettlement"
    ELSE "Executed"

\* the batch_settle instruction; accounts_ok: the remaining accounts are the
\* wallets and token accounts of the entries
BatchSettle(batch_id, signer, entries, accounts_ok) ==
    /\ LET b == treasury.batch[batch_id]
           res == batch_settle(b, batch_id, signer, entries, accounts_ok)
           t == [treasury EXCEPT !.last = [ix |-> "batch_settle", id |-> batch_id,
                                           result |-> res]]
       IN  treasury' =
               IF res = "Executed"
               THEN [t EXCEPT !.sol = @ - TotalOf(entries, "Sol"),
                              !.usdc = @ - TotalOf(entries, "Usdc"),
                              !.batch[batch_id] =
                                 [batch_id |-> batch_id, settlements |-> entries,
                                  total_sol_amount |-> TotalOf(entries, "Sol"),
                                  total_usdc_amount |-> TotalOf(entries, "Usdc"),
                                  created_at |-> IF b.batch_id = 0 THEN treasury.clock
                                                 ELSE b.created_at,
                                  executed_at |-> <<treasury.clock>>,
                                  status |-> "Executed"]]
               ELSE t
    /\ UNCHANGED <<db, req, last, started, ws, amm, committer, users>>

\* close_batch_settlement: an Executed account is closed
CloseBatchSettlement(batch_id) ==
    /\ LET b == treasury.batch[batch_id]
           ok == b.status = "Executed"
           t == [treasury EXCEPT !.last =
                    [ix |-> "close_batch_settlement", id |-> batch_id,
                     result |-> IF ok THEN "Closed" ELSE "BatchAlreadyExecuted"]]
       IN  treasury' = IF ok THEN [t EXCEPT !.batch[batch_id] = ZeroBatch] ELSE t
    /\ UNCHANGED <<db, req, last, started, ws, amm, committer, users>>

NextTreasury ==
    \/ \E t \in Times : Warp(t)
    \/ \E id \in RequestIds, signer \in Signers, sol \in TokenAmounts, usdc \in TokenAmounts :
          EmergencyWithdraw(id, signer, sol, usdc)
    \/ \E id \in RequestIds : CloseEmergencyWithdraw(id)

SpecTreasury == InitMarket /\ [][NextTreasury]_vars

NextBatch ==
    \/ \E t \in {Genesis + 1} : Warp(t)
    \/ \E id \in BatchIds, signer \in Signers, entries \in SettlementLists,
          accounts_ok \in BOOLEAN : BatchSettle(id, signer, entries, accounts_ok)
    \/ \E id \in BatchIds : CloseBatchSettlement(id)

SpecBatch == InitMarket /\ [][NextBatch]_vars

TypeOK ==
    /\ \A u \in Users : bal[u].balance \in Int /\ bal[u].locked \in Int
    /\ started \in 0..MaxRequests
    /\ \A p \in Procs : req[p].kind = "idle" <=> req[p].pc = "idle"

\* =================================================================== claims
\* the tables a settlement may write
ledger == <<events, settlements, payouts, bal, txs>>

\* C1: after every committed ledger operation issued by deposit, withdraw,
\* place_bet or settle, every balance row has balance >= 0, locked >= 0 and
\* locked <= balance
C1_BalanceRowsSound ==
    \A u \in Users :
        bal[u].balance >= 0 /\ bal[u].locked >= 0 /\ bal[u].locked <= bal[u].balance

HasTx(u, types) == \E i \in 1..Len(txs[u]) : txs[u][i].type \in types

C1_Witness ==
    \E u \in Users :
        /\ HasTx(u, {"deposit"}) /\ HasTx(u, {"bet_placed"})
        /\ HasTx(u, {"bet_won", "bet_lost"})

\* C2: concurrent place_bet requests of one user never over-spend: the lock
\* step decides on the row as it is at that moment, whatever snapshot the
\* request saw; when the funds are there it locks exactly the amount, and
\* when they are not the request ends with an error, inserts no bet and
\* changes no table
C2_LockRechecksUnderRowLock ==
    [][\A p \in Procs :
          (req[p].kind = "place_bet" /\ req[p].pc = "lock" /\ req'[p] # req[p])
             => LET w == req[p].wallet
                    amt == req[p].amount
                IN  IF bal[w].exists /\ available(bal[w]) >= amt
                    THEN /\ bal'[w].locked = bal[w].locked + amt
                         /\ bal'[w].balance = bal[w].balance
                         /\ bal'[w].locked <= bal'[w].balance
                         /\ req'[p].pc = "insert"
                    ELSE /\ db' = db
                         /\ req'[p] = IdleReq
                         /\ last'.kind = "place_bet" /\ last'.result # "ok"]_vars

C2_Witness ==
    /\ last.kind = "place_bet" /\ last.at = "lock" /\ last.result # "ok"
    /\ \E u \in Users : bal[u].locked > 0 /\ available(bal[u]) = 0

\* the answers that say the event was settled before
AlreadySettled == {"BusinessLogic:Duplicate", "BusinessLogic:NotActive"}

\* C3: of two concurrent settle requests for one event at most one creates
\* a Settlement row; the one that finds the row taken receives
\* AlreadySettled and inserts no settlement, no payout and no settle_win or
\* settle_loss change
C3_OneSettlementLoserAlreadySettled ==
    [][/\ \A e \in EventIds : Len(SelectSeq(settlements', LAMBDA x : x.event = e)) <= 1
       /\ \A p \in Procs :
             (IsSettle(req[p]) /\ req[p].pc = "create" /\ req'[p] # req[p]
                /\ HasSettlement(req[p].event))
                => /\ last'.result \in AlreadySettled
                   /\ req'[p] = IdleReq
                   /\ settlements' = settlements /\ payouts' = payouts
                   /\ bal' = bal /\ txs' = txs]_vars

\* C4: a settle request (manual, oracle or consensus) for an event that is
\* not Active returns AlreadySettled and changes no event, settlement,
\* payout, balance or transaction row; no user is paid twice for an event
C4_SettleNeedsActiveEvent ==
    [][/\ \A p \in Procs :
             (IsSettle(req[p]) /\ req[p].pc # "idle" /\ req'[p] # req[p]
                /\ req[p].evstatus # "active")
                => /\ ledger' = ledger
                   /\ req'[p] = IdleReq
                   /\ last'.result \in AlreadySettled
       /\ \A i, j \in 1..Len(payouts') :
             (payouts'[i].event = payouts'[j].event /\ payouts'[i].user = payouts'[j].user)
                => i = j]_vars

PayoutsOf(e) == SelectSeq(payouts, LAMBDA x : x.event = e)

\* C5: the payout_amount values of a settlement never add up to more than
\* its total_pool
C5_PayoutsWithinPool ==
    \A i \in 1..Len(settlements) :
        SumField(PayoutsOf(settlements[i].event), "amount") <= settlements[i].pool

\* C6: place_bet is all-or-nothing: a request that returns an error, the
\* failure of the bet insert included, leaves no funds locked and no bet
\* row behind; a request that succeeds leaves both
C6_PlaceBetAllOrNothing ==
    [][\A p \in Procs :
          (req[p].kind = "place_bet" /\ req[p].pc # "idle" /\ req'[p].pc = "idle")
             => IF last'.result = "ok"
                THEN req[p].locked = req[p].amount /\ Len(bets') = Len(bets) + 1
                ELSE req[p].locked = 0 /\ bets' = bets]_vars

\* C7: a bet is placed only while its event is Active, on every entry
\* point: no request that found the event in another status inserts a bet
C7_BetsOnlyWhileActive ==
    [][\A p \in Procs :
          (req[p].kind = "place_bet" /\ req'[p] # req[p] /\ bets' # bets)
             => req[p].evstatus = "active"]_vars

\* C8: every bet of the leaf set gets a proof, and verify_proof of that
\* proof against the root is true, for every leaf count and leaf position
C8_EveryProofVerifies ==
    \A e \in EventIds :
        LET bs == EventBets(e, Len(bets))
            tree == generate_merkle_root(e)
        IN  \A i \in 1..Len(bs) :
               /\ bs[i].id \in DOMAIN tree.proofs
               /\ verify_proof(hash_bet(bs[i]), tree.proofs[bs[i].id], tree.root)

\* C9: a wallet that is not a member of the group is rejected when it
\* calls create_event, place_bet or submit_consensus_vote: none of its
\* requests gets past the start of the handler
C9_NonMembersRejected ==
    [][/\ \A p \in Procs :
             (req[p].pc = "idle" /\ req'[p].pc # "idle"
                /\ req'[p].kind \in {"place_bet", "vote"})
                => req'[p].role # "none"
       /\ \A p \in Procs, w \in Users, e \in EventIds, n \in {1, 2} :
             (CreateEvent(p, w, e, n) /\ members[w] = "none")
                => last'.result = "Unauthorized" /\ db' = db
       /\ \A p \in Procs, w \in Users, e \in EventIds, o \in Outcomes :
             (SubmitVote(p, w, e, o) /\ members[w] = "none")
                => db' = db /\ req' = req
       /\ \A p \in Procs, path \in Paths, w \in Users, e \in EventIds,
             o \in Outcomes, amt \in BetAmounts, sh \in ShareChoices :
             (PlaceBetStart(p, path, w, e, o, amt, sh) /\ members[w] = "none")
                => db' = db /\ req' = req]_vars

\* C10: settle_manual called by a wallet that is not an Admin of the event's
\* group returns Unauthorized and changes no table
C10_NonAdminSettleRejected ==
    [][\A p \in Procs, w \in Users, e \in EventIds, o \in Outcomes :
          (SettleStart(p, "svc", w, e, o) /\ events[e].exists /\ members[w] # "admin")
             => /\ last'.kind = "settle_manual" /\ last'.result = "Unauthorized"
                /\ req' = req
                /\ db' = db]_vars

C10_Witness ==
    /\ last.kind = "settle_manual" /\ last.path = "svc" /\ last.result = "Unauthorized"
    /\ \E e \in EventIds : events[e].exists

\* C11: an event's status changes only from Active to Resolved or from
\* Active to Cancelled; once Resolved or Cancelled it never changes again
C11_StatusOnlyLeavesActive ==
    [][\A e \in EventIds :
          (events[e].exists /\ events'[e].status # events[e].status)
             => /\ events[e].status = "active"
                /\ events'[e].status \in {"resolved", "cancelled"}]_vars

\* ceil(2 * member_count / 3)
ceil_two_thirds == (2 * member_count + 2) \div 3

\* C12: submit_consensus_vote triggers settlement exactly when the recorded
\* votes of the event reach ceil(2*member_count/3); while they are below it
\* the vote is only recorded, no settlement runs and the call returns false,
\* for every group size
C12_SettlesAtCeilTwoThirds ==
    [][\A p \in Procs, w \in Users, e \in EventIds, o \in Outcomes :
          (SubmitVote(p, w, e, o) /\ votes' # votes)
             => LET n == Len(votes'[e])
                IN  IF n < ceil_two_thirds
                    THEN /\ req' = req
                         /\ last'.kind = "vote" /\ last'.result = "false"
                         /\ ledger' = ledger
                    ELSE n = ceil_two_thirds
                            => req'[p].kind = "vote" /\ req'[p].pc = "status"]_vars

\* C13: over any sequence of submit_consensus_vote calls the settlement
\* fires exactly once (one Settlement row), on the vote that reaches the
\* threshold ceil(2*member_count/3) and on no other vote; every vote
\* submitted after that returns AlreadySettled and changes no balance
C13_ConsensusSettlesOnce ==
    [][/\ \A e \in EventIds : Len(SelectSeq(settlements', LAMBDA x : x.event = e)) <= 1
       /\ \A p \in Procs, w \in Users, e \in EventIds, o \in Outcomes :
             (SubmitVote(p, w, e, o) /\ votes' # votes)
                => (Len(votes'[e]) = ceil_two_thirds => req'[p].pc = "status")
       /\ \A p \in Procs :
             (req[p].kind = "vote" /\ settlements' # settlements)
                => Len(votes[req[p].event]) = ceil_two_thirds
       /\ \A p \in Procs :
             (req[p].kind = "vote" /\ req'[p] # req[p]
                /\ Len(votes[req[p].event]) > ceil_two_thirds)
                => /\ bal' = bal /\ txs' = txs
                   /\ req'[p].pc = "idle" => last'.result \in AlreadySettled]_vars

\* balance_after = balance_before +/- amount according to the type's sign
RowBalanced(t) ==
    CASE t.type \in {"deposit", "bet_won"} -> t.after = t.before + t.amount
      [] t.type \in {"withdrawal", "bet_lost"} -> t.after = t.before - t.amount
      [] t.type = "bet_placed" -> t.after = t.before
      [] OTHER -> FALSE

\* C14: each balance-changing ledger operation writes exactly one
\* Transaction row, and in every row balance_after equals balance_before
\* plus (credit, BetWon) or minus (debit, BetLost) the amount, or equals
\* balance_before (BetPlaced)
C14_OneBalancedRowPerOperation ==
    [][\A u \in Users :
          /\ \A i \in 1..Len(txs'[u]) : RowBalanced(txs'[u][i])
          /\ (bal'[u].balance # bal[u].balance \/ bal'[u].locked # bal[u].locked)
                => /\ Len(txs'[u]) = Len(txs[u]) + 1
                   /\ SubSeq(txs'[u], 1, Len(txs[u])) = txs[u]
          /\ txs'[u] # txs[u]
                => /\ Len(txs'[u]) = Len(txs[u]) + 1
                   /\ SubSeq(txs'[u], 1, Len(txs[u])) = txs[u]]_vars

C14_Witness ==
    /\ \E u \in Users : HasTx(u, {"withdrawal"})
    /\ \E u \in Users : HasTx(u, {"bet_won"}) /\ HasTx(u, {"bet_placed"})
    /\ \E u \in Users : HasTx(u, {"bet_lost"}) /\ HasTx(u, {"deposit"})

\* the rows of user u journaled for event e with one of the types
EventRows(t, e, types) == SelectSeq(t, LAMBDA x : x.event = e /\ x.type \in types)

\* C15: in a settlement whose ledger calls all succeed, each user holding
\* winning bets gets balance + (payout - winning stake) with payout =
\* (user_winning_shares / winning_shares) * total_pool and locked - winning
\* stake; each losing bet takes its amount off its owner's balance and
\* locked; each of these effects is journaled as one BetWon or BetLost row
C15_SettlementEffects ==
    [][\A p \in Procs :
          (IsSettle(req[p]) /\ req[p].pc = "loop" /\ req'[p] # req[p])
             => LET r == req[p]
                    e == r.event
                    bs == EventBets(e, r.snap)
                IN  \A u \in Users :
                      LET ub == OfUser(bs, u)
                          wb == Winning(ub, r.outcome)
                          lb == SelectSeq(ub, LAMBDA b : b.outcome # r.outcome)
                          stake == SumField(wb, "amount")
                          pay == payout_amount(SumField(wb, "shares"),
                                               total_winning_shares(e, r.snap, r.outcome),
                                               total_pool(e, r.snap), stake)
                          new == SubSeq(txs'[u], Len(txs[u]) + 1, Len(txs'[u]))
                      IN  /\ \/ bal'[u] = bal[u] /\ txs'[u] = txs[u]
                             \/ /\ wb # <<>>
                                /\ Len(new) = 1 /\ new[1].type = "bet_won" /\ new[1].event = e
                                /\ bal'[u].balance = bal[u].balance + (pay - stake)
                                /\ bal'[u].locked = bal[u].locked - stake
                             \/ /\ Len(new) = 1 /\ new[1].type = "bet_lost" /\ new[1].event = e
                                /\ \E i \in 1..Len(lb) : new[1].amount = lb[i].amount
                                /\ bal'[u].balance = bal[u].balance - new[1].amount
                                /\ bal'[u].locked = bal[u].locked - new[1].amount
                          /\ req'[p].pc = "idle"
                                => /\ Len(EventRows(txs'[u], e, {"bet_won"}))
                                         = (IF wb # <<>> THEN 1 ELSE 0)
                                   /\ Len(EventRows(txs'[u], e, {"bet_lost"})) = Len(lb)]_vars

C15_Witness ==
    /\ last.kind = "settle_manual" /\ last.at = "loop" /\ last.result = "ok"
    /\ \E u \in Users : \E i \in 1..Len(txs[u]) :
          txs[u][i].type = "bet_won" /\ txs[u][i].amount > 0
    /\ \E u \in Users : HasTx(u, {"bet_lost"})

\* C16: a successful place_bet of amount A by user U leaves U's balance
\* unchanged and raises U's locked by exactly A, inserts exactly one bet row
\* with amount A, appends exactly one BetPlaced transaction with
\* balance_before = balance_after, and changes no other user's balance row
C16_PlaceBetEffects ==
    [][\A p \in Procs :
          (req'[p] # req[p] /\ "place_bet" \in {req[p].kind, req'[p].kind})
             => LET r == IF req[p].kind = "place_bet" THEN req[p] ELSE req'[p]
                    u == r.wallet
                    A == r.amount
                    ok == req'[p].pc # "idle" \/ last'.result = "ok"
                IN  /\ \A v \in Users \ {u} : bal'[v] = bal[v] /\ txs'[v] = txs[v]
                    /\ ok => bal'[u].balance = bal[u].balance
                    /\ (ok /\ req[p].pc = "idle")
                          => /\ bal'[u].locked = bal[u].locked
                             /\ txs' = txs /\ bets' = bets
                    /\ (ok /\ req[p].pc = "lock")
                          => /\ bal'[u].locked = bal[u].locked + A
                             /\ txs'[u] = Append(txs[u], TxRow("bet_placed", A,
                                                  bal[u].balance, bal[u].balance, r.event))
                             /\ bets' = bets
                             /\ req'[p].locked = A /\ req[p].locked = 0
                    /\ (ok /\ req[p].pc = "insert")
                          => /\ req[p].locked = A
                             /\ bal' = bal /\ txs' = txs
                             /\ Len(bets') = Len(bets) + 1
                             /\ SubSeq(bets', 1, Len(bets)) = bets
                             /\ bets'[Len(bets')].user = u
                             /\ bets'[Len(bets')].amount = A
                             /\ bets'[Len(bets')].event = r.event]_vars

C16_Witness ==
    /\ last.kind = "place_bet" /\ last.at = "insert" /\ last.result = "ok"
    /\ \E u \in Users, v \in Users :
          /\ u # v /\ bal[v].exists /\ bal[v].balance > 0
          /\ bal[u].locked > 0 /\ HasTx(u, {"bet_placed"})
          /\ \E i \in 1..Len(bets) : bets[i].user = u /\ bets[i].amount = bal[u].locked

C18_WithdrawNeedsNothingLocked ==
    [][\A p \in Procs, w \in Users, amt \in DepositAmounts, chain_ok \in BOOLEAN :
          (WithdrawStart(p, w, amt, chain_ok) /\ bal[w].locked > 0)
             => /\ req' = req
                /\ last'.kind = "withdraw"
                /\ last'.result \notin {"ok", "External"}
                /\ db' = db]_vars

\* C19: in every state reached by create_group and invite_member calls,
\* invitations of wallets that are members already included, the group has
\* exactly one member with role Admin, the user of its admin_wallet
C19_ExactlyOneAdmin ==
    (\E u \in Users : members[u] # "none")
        => {u \in Users : members[u] = "admin"} = {GroupAdmin}

\* C20: claiming a payout is a one-shot transition: mark_payout_claimed
\* moves a payout from claimed = false to claimed = true once; applied to a
\* payout that is claimed already it does not succeed again and leaves
\* claimed_at and the external tx reference unchanged
C20_ClaimIsOneShot ==
    [][\A p \in Procs, id \in PayoutIds, sig \in ClaimSigs :
          (MarkPayoutClaimed(p, id, sig) /\ id <= Len(payouts))
             => IF payouts[id].claimed
                THEN /\ last'.result # "ok"
                     /\ payouts'[id].claimed_at = payouts[id].claimed_at
                     /\ payouts'[id].sig = payouts[id].sig
                ELSE /\ last'.result = "ok"
                     /\ payouts'[id].claimed]_vars

\* C21: a message published on a channel of any kind (event, group, user)
\* reaches the receiver of every client subscribed to that channel, and the
\* client's forwarding task sends it to a client that is still subscribed
C21_SubscribersAreSent ==
    [][\A c \in Clients :
          /\ \A ch \in Channels, msg \in WsMessages :
                (/\ conn[c].state = "open" /\ is_client_subscribed(c, ch)
                 /\ \/ ch.kind = "group" /\ BroadcastToGroup(ch.id, msg)
                    \/ ch.kind = "user" /\ BroadcastToUser(ch.id, msg)
                    \/ ch.kind = "event" /\ msg.type = "price_update"
                          /\ BroadcastPriceUpdate(ch.id)
                    \/ ch.kind = "event" /\ msg.type = "event_settled"
                          /\ BroadcastEventSettled(ch.id))
                   => /\ Len(rx'[c]) = Len(rx[c]) + 1
                      /\ rx'[c][Len(rx'[c])].channel = ch
          /\ (/\ conn[c].state = "open" /\ rx[c] # <<>>
              /\ c \in Head(rx[c]).subs
              /\ is_client_subscribed(c, Head(rx[c]).channel)
              /\ Deliver(c))
                => sent'[c] = Append(sent[c], Head(rx[c]))]_vars

\* C22: a client is sent a published message only if it is subscribed to
\* the channel the message was published on, and at most once for that
\* channel; a BetExecuted on a user channel is about that wallet
C22_OnlySubscribersAreSent ==
    [][\A c \in Clients :
          sent'[c] # sent[c]
             => LET m == sent'[c][Len(sent'[c])]
                IN  /\ c \in m.subs \/ is_client_subscribed(c, m.channel)
                    /\ \A i \in 1..Len(sent[c]) :
                          ~(sent[c][i].n = m.n /\ sent[c][i].channel = m.channel)
                    /\ (m.channel.kind = "user" /\ m.type = "bet_executed")
                          => m.user = m.channel.id]_vars

\* C23: after a client has disconnected (close frame or transport error) its
\* id is in the subscriber list of no channel, whatever it subscribed to and
\* unsubscribed from before, repeated subscriptions included
C23_DisconnectLeavesNoSubscription ==
    \A c \in Clients :
        conn[c].state = "closed"
            => /\ \A ch \in Channels : ~is_client_subscribed(c, ch)
               /\ client_channels[c] = <<>>

C23_Witness ==
    \E c \in Clients :
        /\ conn[c].state = "closed"
        /\ Len(conn[c].joined) >= 2
        /\ conn[c].joined[1] = conn[c].joined[2]

\* C24: a state-changing request whose timestamp is more than 300 seconds
\* from the server clock is answered Unauthorized and changes nothing, on
\* the domain-service path and on the gRPC path alike
C24_StaleRequestsRejected ==
    [][\A p \in OneSlot, ts \in Timestamps, sig \in Signatures, w \in Users :
          Abs(now - ts) > ReplayWindow
             => /\ \A path \in Paths, e \in EventIds, o \in Outcomes,
                     amt \in BetAmounts, sh \in ShareChoices :
                      AuthPlaceBet(p, path, w, e, o, amt, sh, ts, sig)
                         => /\ last'.result = "Unauthorized"
                            /\ UNCHANGED <<db, req>>
                /\ \A amt \in DepositAmounts, ok \in BOOLEAN :
                      AuthDeposit(p, w, amt, ok, ts, sig)
                         => /\ last'.result = "Unauthorized"
                            /\ UNCHANGED <<db, req>>]_vars

\* C25: verify_proof answers true against the root of the committed bets
\* only for a proof whose leaf hash is the hash of a committed bet: never for
\* a bet with a changed amount, shares or outcome, nor for any other leaf
\* hash or path
C25_OnlyCommittedLeavesVerify ==
    [][\A p \in OneSlot, e \in EventIds :
          (bets # <<>> /\ last'.kind = "verify_proof" /\ last'.result = "true")
             => \A leaf_hash \in ProofLeaves(e), path \in ProofPaths(e) :
                   VerifyProofOf(p, e, leaf_hash, path)
                      => leaf_hash \in LeafHashes(e)]_vars

\* a price vector within [min_price, max_price] whose sum is 1 to the last
\* digit carried (a millionth for each rounded price)
PricesSound(ps) ==
    /\ \A i \in 1..Len(ps) : min_price <= ps[i] /\ ps[i] <= max_price
    /\ Abs(SumSeq(ps) - AmmScale) <= Len(ps)

\* C26: for every shares vector and every accepted number of outcomes the
\* prices of get_prices lie in [0.01, 0.99] and sum to 1 within 1e-6, and so
\* do the new prices and the fill price that calculate_buy returns
C26_PricesBoundedAndNormalised ==
    /\ amm.prices # <<>> => PricesSound(amm.prices)
    /\ amm.buy.ok => /\ PricesSound(amm.buy.new_prices)
                     /\ min_price <= amm.buy.price /\ amm.buy.price <= max_price

\* C27: the shares calculate_buy returns for outcome k and a positive amount
\* A raise the cost function by A to within the solver's tolerance of 0.0001
C27_BuyCostsTheAmount ==
    amm.buy.ok =>
        Abs(calculate_cost([amm.shares EXCEPT ![amm.buy.outcome] = @ + amm.buy.shares])
              - calculate_cost(amm.shares) - amm.buy.amount) < tolerance

\* C28: under any interleaving of concurrent submit_consensus_vote calls
\* the vote list of an event holds at most one vote of each voter, and a
\* vote of a wallet that has voted is answered BusinessLogic and leaves the
\* votes as they are
C28_OneVotePerVoter ==
    /\ [](\A e \in EventIds : \A i, j \in 1..Len(votes[e]) :
             votes[e][i].voter = votes[e][j].voter => i = j)
    /\ [][\A p \in Procs :
             (/\ req[p].kind = "vote" /\ req[p].pc = "vote"
              /\ HasVoted(req[p].event, req[p].wallet)
              /\ VoteLocked(p))
                => /\ votes' = votes
                   /\ req'[p] = IdleReq
                   /\ last'.result = "BusinessLogic:AlreadyVoted"]_vars

\* two calls of one wallet are in flight: one has pushed its vote and gone
\* on to settle, the other has passed the checks before the lock
C28_Witness ==
    /\ req["p1"].kind = "vote" /\ req["p1"].pc = "status"
    /\ req["p2"].kind = "vote" /\ req["p2"].pc = "vote"
    /\ req["p1"].wallet = req["p2"].wallet
    /\ HasVoted(req["p2"].event, req["p2"].wallet)

\* the place in the vote list of the first vote for outcome o
FirstVote(vs, o) ==
    CHOOSE i \in 1..Len(vs) : vs[i].outcome = o /\ \A j \in 1..(i - 1) : vs[j].outcome # o

\* C29: when a vote reaches the threshold the outcome that is settled has the
\* most votes, and among the outcomes with the most votes it is the one that
\* was voted for first, so that the votes in their order decide the winner
C29_MajorityFirstVotedWinsTies ==
    [][\A p \in Procs :
          (req[p].kind = "vote" /\ req[p].pc = "vote" /\ req'[p].pc = "status")
             => LET vs == votes'[req[p].event]
                    win == req'[p].outcome
                IN  /\ win \in Leaders(vs)
                    /\ \A o \in Leaders(vs) : FirstVote(vs, win) <= FirstVote(vs, o)]_vars

\* the reference construction: adjacent hashes paired as H(left || right),
\* the last one of an odd level paired with itself
RECURSIVE PairUp(_)
PairUp(hs) ==
    IF hs = <<>> THEN <<>>
    ELSE IF Len(hs) = 1 THEN <<hash_pair(hs[1], hs[1])>>
    ELSE <<hash_pair(hs[1], hs[2])>> \o PairUp(Tail(Tail(hs)))

RECURSIVE ReferenceRoot(_)
ReferenceRoot(hs) == IF Len(hs) = 1 THEN hs[1] ELSE ReferenceRoot(PairUp(hs))

\* C30: generate_merkle_root gives 32 zero bytes for an event without bets,
\* the leaf's hash and an empty path for one bet, and for more bets the root
\* of the reference construction, whatever the number of leaves; a proof
\* request is handed that root
C30_RootIsReferenceRoot ==
    \A e \in EventIds :
        LET tree == generate_merkle_root(e)
            lv == Leaves(e)
            hs == [i \in 1..Len(lv) |-> lv[i].hash]
        IN  /\ Len(lv) = 0 => tree.root = ZeroHash /\ tree.proofs = <<>>
            /\ Len(lv) = 1 => tree.root = hs[1] /\ tree.proofs[lv[1].id] = <<>>
            /\ Len(lv) >= 2 => tree.root = ReferenceRoot(hs)
            /\ \A p \in Procs :
                  (req[p].kind = "merkle_proof" /\ req[p].pc = "verify" /\ req[p].event = e)
                     => req[p].root = tree.root

\* a proof was generated over a tree with a level of odd length
C30_Witness ==
    \E p \in Procs, e \in EventIds :
        /\ req[p].kind = "merkle_proof" /\ req[p].pc = "verify" /\ req[p].event = e
        /\ Len(Leaves(e)) = 3
        /\ req[p].root = ReferenceRoot([i \in 1..3 |-> Leaves(e)[i].hash])

\* C31: a tick that has ended took every event it had read through the loop,
\* whatever failed on the way (volume query, tree construction, slot query or
\* chain publication), and the committer sleeps until the next tick
C31_FailureDoesNotStopTheTick ==
    committer.pc = "sleep" => committer.found \subseteq committer.processed

\* C32: every chain call of a tick was made for an event the tick read as
\* Active, with a Solana pubkey, and with a summed volume of at least the
\* threshold; an event failing one of these has no chain call in the tick
C32_PublishesOnlyActiveFundedEvents ==
    \A c \in committer.published :
        /\ c.status = "active"
        /\ c.solana_pubkey
        /\ c.volume_cents >= min_volume_threshold
        /\ c.id \in committer.found
        /\ events[c.id].pubkey

C32_Witness ==
    /\ committer.pc = "sleep"
    /\ Cardinality(committer.found) = 2
    /\ Cardinality(committer.published) = 1
    /\ \E c \in committer.published : c.volume_cents = min_volume_threshold
    /\ \E e \in committer.found : events[e].pubkey /\ volume_cents(e) > 0
                                   /\ \A c \in committer.published : c.id # e

\* C33: no wallet ever has two user rows, and every find_or_create_by_wallet
\* call, whatever calls for the same wallet run beside it, returns the id of
\* the wallet's one row and never an error
C33_FindOrCreateReturnsTheOneUser ==
    [][/\ \A w \in Users : Cardinality(find_by_wallet(w)') <= 1
       /\ \A p \in Procs, w \in Users :
            \/ req[p].kind = "find_or_create" /\ req[p].wallet = w /\ req'[p].kind = "idle"
            \/ FindOrCreateStart(p, w) /\ req'[p].kind = "idle"
            => \E id \in find_by_wallet(w)' : last'.result = UserIdText[id]]_vars

\* C34: once no settle call for an event is running, the event is Resolved
\* only if it has a Settlement row; a settle call that returned an error
\* left the status as it was
C34_ResolvedOnlyWithSettlement ==
    \A e \in EventIds :
        (/\ \A p \in Procs : ~(IsSettle(req[p]) /\ req[p].event = e)
         /\ events[e].status = "resolved")
        => HasSettlement(e)

\* C35: the total_pool of every Settlement row is the sum of amount_usdc over
\* all bet rows of its event, in every state: no bet row of the event is
\* inserted after the settlement has read the bets
C35_PoolIsSumOfAllBets ==
    \A i \in 1..Len(settlements) :
        settlements[i].pool = total_pool(settlements[i].event, Len(bets))

\* C36: a withdrawal whose on-chain transfer has succeeded ends with the
\* ledger debit of the same amount committed, never with an error, whatever
\* ran beside it; a withdrawal whose on-chain transfer failed leaves the
\* ledger as it was
C36_ChainAndLedgerInStep ==
    [][\A p \in Procs :
          /\ (req[p].kind = "withdraw" /\ req[p].pc = "debit" /\ WithdrawDebit(p))
             => /\ last'.result = "ok"
                /\ bal'[req[p].wallet].balance = bal[req[p].wallet].balance - req[p].amount
          /\ \A w \in Users, amt \in DepositAmounts :
                (WithdrawStart(p, w, amt, FALSE) /\ withdraw_precheck(w, Dec(amt)) = "ok")
                => /\ last'.result = "External"
                   /\ UNCHANGED <<bal, txs>>]_vars

\* C37: the transaction rows of a user form a journal: every row's
\* balance_before is the balance stored just before its operation committed
\* (0 for the first row, the previous row's balance_after otherwise), so the
\* newest row's balance_after is the current balance_usdc
C37_JournalIsConsistent ==
    \A u \in Users :
        /\ \A i \in 1..Len(txs[u]) :
              txs[u][i].before = IF i = 1 THEN 0 ELSE txs[u][i - 1].after
        /\ txs[u] # <<>> => txs[u][Len(txs[u])].after = bal[u].balance

\* the sum of f[u] over the users in S
RECURSIVE SumOver(_, _)
SumOver(S, f) ==
    IF S = {} THEN 0
    ELSE LET u == CHOOSE x \in S : TRUE IN f[u] + SumOver(S \ {u}, f)

\* C38: a finished settlement with winning shares is zero-sum: the winnings
\* credited for the event equal the losing stakes debited for it, and the
\* locked funds released equal its total_pool
C38_SettlementIsZeroSum ==
    \A i \in 1..Len(settlements) :
        LET e == settlements[i].event
            won == [u \in Users |-> SumField(EventRows(txs[u], e, {"bet_won"}), "amount")]
            lost == [u \in Users |-> SumField(EventRows(txs[u], e, {"bet_lost"}), "amount")]
            placed == [u \in Users |->
                          SumField(EventRows(txs[u], e, {"bet_placed"}), "amount")]
            locked == [u \in Users |-> bal[u].locked]
        IN  (/\ \A p \in Procs : req[p].kind = "idle"
             /\ settlements[i].pool = total_pool(e, Len(bets))
             /\ total_winning_shares(e, Len(bets), settlements[i].outcome) > 0)
            => /\ SumOver(Users, won) = SumOver(Users, lost)
               /\ SumOver(Users, placed) - SumOver(Users, locked) = settlements[i].pool

\* what an emergency_withdraw call does when it moves funds: the request was
\* made by an earlier call and is Pending, the clock has reached
\* requested_at + TIMELOCK_SECONDS, and the amounts are the stored ones
TimelockedTransfer(id) ==
    LET w == treasury.withdraw[id]
    IN  (treasury'.sol # treasury.sol \/ treasury'.usdc # treasury.usdc)
        => /\ w.request_id = id /\ w.status = "Pending" /\ w.executed_at = <<>>
           /\ treasury.clock >= w.requested_at + TIMELOCK_SECONDS
           /\ treasury.sol - treasury'.sol = w.sol_amount
           /\ treasury.usdc - treasury'.usdc = w.usdc_amount
           /\ treasury'.withdraw[id].status = "Executed"

\* C39 as stated: funds leave only 7 days or more after the request was made,
\* in the stored amounts, and once a request is Executed every further call
\* with its request_id fails with WithdrawAlreadyExecuted and moves no funds
C39_EveryFurtherCallAlreadyExecuted ==
    [][\A id \in RequestIds, signer \in Signers, sol \in TokenAmounts, usdc \in TokenAmounts :
          EmergencyWithdraw(id, signer, sol, usdc)
          => /\ TimelockedTransfer(id)
             /\ treasury.withdraw[id].status = "Executed"
                => /\ treasury'.last.result = "WithdrawAlreadyExecuted"
                   /\ treasury'.sol = treasury.sol /\ treasury'.usdc = treasury.usdc
                   /\ treasury'.withdraw = treasury.withdraw]_vars

\* C39 amended: the same, except that a further call fails with
\* WithdrawAlreadyExecuted only when it is signed by the group's admin and
\* names a positive amount; any other further call fails earlier, with
\* Unauthorized or InvalidAmount, and moves no funds either
C39_TimelockedOnceOnly ==
    [][\A id \in RequestIds, signer \in Signers, sol \in TokenAmounts, usdc \in TokenAmounts :
          EmergencyWithdraw(id, signer, sol, usdc)
          => /\ TimelockedTransfer(id)
             /\ treasury.withdraw[id].status = "Executed"
                => /\ treasury'.last.result =
                         IF signer # "admin" THEN "Unauthorized"
                         ELSE IF sol = 0 /\ usdc = 0 THEN "InvalidAmount"
                         ELSE "WithdrawAlreadyExecuted"
                   /\ treasury'.sol = treasury.sol /\ treasury'.usdc = treasury.usdc
                   /\ treasury'.withdraw = treasury.withdraw]_vars

C39_Witness ==
    /\ treasury.last = [ix |-> "emergency_withdraw", id |-> 1,
                        result |-> "WithdrawAlreadyExecuted"]
    /\ treasury.withdraw[1].status = "Executed"
    /\ treasury.withdraw[1].executed_at = <<treasury.withdraw[1].unlock_at>>
    /\ treasury.sol + treasury.withdraw[1].sol_amount \in TreasuryFunds
    /\ treasury.withdraw[1].sol_amount > 0


\* C40: batch_settle moves funds at most once per (friend_group, batch_id),
\* batch_id = 0 included: a batch_settle call on a batch that has been executed
\* moves no funds and leaves the batch as it was, and, when signed by the admin
\* with a list of 1..100 entries, fails with BatchAlreadyExecuted.
C40_BatchSettlesAtMostOnce ==
    [][\A id \in BatchIds, signer \in Signers, entries \in SettlementLists,
         accounts_ok \in BOOLEAN :
          (BatchSettle(id, signer, entries, accounts_ok)
           /\ treasury.batch[id].status = "Executed")
          => /\ treasury'.sol = treasury.sol /\ treasury'.usdc = treasury.usdc
             /\ treasury'.batch = treasury.batch
             /\ (signer = "admin" /\ Len(entries) > 0)
                => treasury'.last.result = "BatchAlreadyExecuted"]_vars

====
